---- MODULE Spec2Model ----
(***************************************************************************)
(* Ask-Gemini extension: the quote/compose/send controller of content.js   *)
(* (quote-chip generation, lines 1-1449), the text functions it uses, and  *)
(* the host page it runs in.                                               *)
(*                                                                         *)
(* A text is a sequence of one-character strings; "\n" is the newline.     *)
(* The empty text <<>> is JavaScript's "" (falsy).                         *)
(***************************************************************************)
EXTENDS Integers, Sequences, FiniteSets, TLC

\* ------------------------------------------------------------------------
\* Bounds of the model
\* ------------------------------------------------------------------------

\* Longest quote text drawn from QuoteAlphabet in SpecCompose.
MaxQuoteLen == 2

\* Deferred callbacks of one kind that may be pending at once: selection
\* reads (handleMouseUp), animation frames (showQuoteChip) and focus timers
\* (handleBubbleClick).
MaxPending == 1

\* User send gestures the host may receive within one bypass window.
MaxHostSends == 2

\* Change notifications of the settings store that may be undelivered at once.
MaxChanges == 2

\* ------------------------------------------------------------------------
\* Texts
\* ------------------------------------------------------------------------

Empty == <<>>

NL == "\n"

\* White space as String.prototype.trim / trimEnd see it (within the alphabet).
IsWhiteSpace(c) == c \in {" ", NL, "\t"}

RECURSIVE TrimEnd(_)
TrimEnd(s) ==
  IF s = Empty THEN Empty
  ELSE IF IsWhiteSpace(s[Len(s)]) THEN TrimEnd(SubSeq(s, 1, Len(s) - 1))
  ELSE s

RECURSIVE TrimStart(_)
TrimStart(s) ==
  IF s = Empty THEN Empty
  ELSE IF IsWhiteSpace(Head(s)) THEN TrimStart(Tail(s))
  ELSE s

Trim(s) == TrimEnd(TrimStart(s))

\* s.substring(i - 1, i - 1 + Len(p)) === p
OccursAt(s, p, i) ==
  /\ i >= 1
  /\ i + Len(p) - 1 <= Len(s)
  /\ SubSeq(s, i, i + Len(p) - 1) = p

\* s.indexOf(p) + 1: the 1-based position of the first occurrence, 0 if none.
IndexOf(s, p) ==
  IF \E i \in 1..(Len(s) + 1) : OccursAt(s, p, i)
  THEN CHOOSE i \in 1..(Len(s) + 1) :
         /\ OccursAt(s, p, i)
         /\ \A j \in 1..(i - 1) : ~OccursAt(s, p, j)
  ELSE 0

\* Number of occurrences of p in s (overlapping ones included).
CountOccurrences(s, p) == Cardinality({i \in 1..(Len(s) + 1) : OccursAt(s, p, i)})

\* textContent of a paragraph sequence: the lines with their breaks removed.
RECURSIVE RemoveNewlines(_)
RemoveNewlines(s) ==
  IF s = Empty THEN Empty
  ELSE IF Head(s) = NL THEN RemoveNewlines(Tail(s))
  ELSE <<Head(s)>> \o RemoveNewlines(Tail(s))

\* ECMAScript GetSubstitution for a string pattern (no capture groups):
\* in the replacement text, $$ is "$", $& the matched text, $` the text
\* before the match, $' the text after it; any other "$" is literal.
RECURSIVE GetSubstitution(_, _, _, _)
GetSubstitution(matched, before, after, repl) ==
  IF repl = Empty THEN Empty
  ELSE IF Head(repl) = "$" /\ Len(repl) >= 2
  THEN LET c == repl[2]
           rest == SubSeq(repl, 3, Len(repl))
       IN CASE c = "$" -> <<"$">> \o GetSubstitution(matched, before, after, rest)
            [] c = "&" -> matched \o GetSubstitution(matched, before, after, rest)
            [] c = "`" -> before \o GetSubstitution(matched, before, after, rest)
            [] c = "'" -> after \o GetSubstitution(matched, before, after, rest)
            [] OTHER -> <<"$">> \o GetSubstitution(matched, before, after, Tail(repl))
  ELSE <<Head(repl)>> \o GetSubstitution(matched, before, after, Tail(repl))

\* String.prototype.replace(pattern, replacement) with a string pattern:
\* the first occurrence only, the replacement expanded by GetSubstitution.
StringReplace(s, pattern, repl) ==
  LET i == IndexOf(s, pattern)
  IN IF i = 0 THEN s
     ELSE LET before == SubSeq(s, 1, i - 1)
              after == SubSeq(s, i + Len(pattern), Len(s))
          IN before \o GetSubstitution(pattern, before, after, repl) \o after

\* text.split("\n")
RECURSIVE Lines(_)
Lines(t) ==
  IF IndexOf(t, <<NL>>) = 0 THEN <<t>>
  ELSE <<SubSeq(t, 1, IndexOf(t, <<NL>>) - 1)>>
         \o Lines(SubSeq(t, IndexOf(t, <<NL>>) + 1, Len(t)))

\* ------------------------------------------------------------------------
\* DOM nodes and their text (getTextFromFragment, tableToMarkdown)
\*
\* A node is a text node, an element or a document fragment. An element has
\* a tag, a set of classes and the value of its data-math attribute (empty:
\* the attribute is absent or empty); tag "annotation" is KaTeX's
\* <annotation encoding="application/x-tex">.
\* ------------------------------------------------------------------------

TextNode(t) ==
  [type |-> "text", tag |-> "", cls |-> {}, math |-> Empty, text |-> t, kids |-> <<>>]

Element(tag, cls, math, kids) ==
  [type |-> "element", tag |-> tag, cls |-> cls, math |-> math, text |-> Empty,
   kids |-> kids]

Fragment(kids) ==
  [type |-> "fragment", tag |-> "", cls |-> {}, math |-> Empty, text |-> Empty,
   kids |-> kids]

\* Concatenation of a sequence of texts.
RECURSIVE Concat(_)
Concat(texts) ==
  IF texts = <<>> THEN Empty ELSE Head(texts) \o Concat(Tail(texts))

\* Array.prototype.join.
RECURSIVE Join(_, _)
Join(texts, sep) ==
  IF texts = <<>> THEN Empty
  ELSE IF Len(texts) = 1 THEN texts[1]
  ELSE texts[1] \o sep \o Join(Tail(texts), sep)

\* Node.textContent.
RECURSIVE TextContent(_)
TextContent(n) ==
  IF n.type = "text" THEN n.text
  ELSE Concat([i \in 1..Len(n.kids) |-> TextContent(n.kids[i])])

\* querySelectorAll by tag: the descendants of n with a tag in `tags`, in
\* document order.
RECURSIVE Descendants(_, _)
Descendants(n, tags) ==
  Concat([i \in 1..Len(n.kids) |->
            (IF n.kids[i].tag \in tags THEN <<n.kids[i]>> ELSE <<>>)
              \o Descendants(n.kids[i], tags)])

\* text.replace(/\n+/g, " ")
RECURSIVE CollapseNewlinesToSpace(_)
CollapseNewlinesToSpace(t) ==
  IF t = Empty THEN Empty
  ELSE IF Head(t) = NL
       THEN IF Len(t) > 1 /\ t[2] = NL
            THEN CollapseNewlinesToSpace(Tail(t))
            ELSE <<" ">> \o CollapseNewlinesToSpace(Tail(t))
       ELSE <<Head(t)>> \o CollapseNewlinesToSpace(Tail(t))

\* A pad that adds nothing.
Pad_AddsNothing(t, w) == t

\* pad(s, w) of tableToMarkdown.
Pad(t, w) == t \o [i \in 1..(IF w > Len(t) THEN w - Len(t) ELSE 0) |-> " "]

\* "-".repeat(w)
Dashes(w) == [i \in 1..w |-> "-"]

BLOCK_TAGS ==
  {"p", "div", "h1", "h2", "h3", "h4", "h5", "h6", "li", "blockquote", "pre",
   "hr", "section", "article"}

RECURSIVE GetTextFromFragment(_)
RECURSIVE TableToMarkdown(_)

\* One line of the Markdown table.
TableLine(cells) == <<"|", " ">> \o Join(cells, <<" ", "|", " ">>) \o <<" ", "|">>

TableToMarkdown(tableEl) ==
  LET rows == Descendants(tableEl, {"tr"})
      CellText(cell) == CollapseNewlinesToSpace(Trim(GetTextFromFragment(cell)))
      Cells(tr) == Descendants(tr, {"th", "td"})
      raw == [r \in 1..Len(rows) |->
                [c \in 1..Len(Cells(rows[r])) |-> CellText(Cells(rows[r])[c])]]
      Max(a, b) == IF a > b THEN a ELSE b
      MaxOver(f, n) ==
        LET m[i \in 0..n] == IF i = 0 THEN 0 ELSE Max(m[i - 1], f[i]) IN m[n]
      colCount == MaxOver([r \in 1..Len(raw) |-> Len(raw[r])], Len(raw))
      matrix == [r \in 1..Len(raw) |->
                   [c \in 1..colCount |->
                      IF c <= Len(raw[r]) THEN raw[r][c] ELSE Empty]]
      widths == [c \in 1..colCount |->
                   Max(3, MaxOver([r \in 1..Len(matrix) |-> Len(matrix[r][c])],
                                  Len(matrix)))]
      Line(row) == TableLine([c \in 1..colCount |-> Pad(row[c], widths[c])])
      headerLine == Line(matrix[1])
      sepLine == TableLine([c \in 1..colCount |-> Dashes(widths[c])])
      dataLines == [r \in 1..(Len(matrix) - 1) |-> Line(matrix[r + 1])]
  IN IF Len(rows) = 0 THEN Empty
     ELSE Join(<<headerLine, sepLine>> \o dataLines, <<NL>>)

GetTextFromFragment(n) ==
  IF n.type = "text" THEN n.text
  ELSE IF n.tag = "table" THEN <<NL>> \o TableToMarkdown(n) \o <<NL>>
  ELSE IF n.tag = "br" THEN <<NL>>
  ELSE IF n.tag \in {"style", "script"} THEN Empty
  ELSE LET result == Concat([i \in 1..Len(n.kids) |-> GetTextFromFragment(n.kids[i])])
       IN IF n.tag \in BLOCK_TAGS /\ result # Empty /\ result[Len(result)] # NL
          THEN result \o <<NL>>
          ELSE result

\* ------------------------------------------------------------------------
\* Math in a cloned fragment (annotateMathFromOriginalDOM, replaceMathElements)
\*
\* The documents of the model hold Gemini's data-math wrappers and KaTeX
\* markup; they hold no MathJax and no MathML <math> element, so steps 3 to 5
\* of replaceMathElements find nothing to replace.
\* ------------------------------------------------------------------------

MATH_CLASSES == {"katex", "katex-display", "MathJax", "math-inline", "math-block"}

ORPHAN_CLASSES == {"katex-display", "katex", "katex-html"}

HIDDEN_CLASSES == {"katex-mathml", "MathJax_Preview", "katex-html"}

\* A [data-math] element of the original document: its LaTeX and whether it
\* has the class math-block.
NoWrapper == [latex |-> Empty, block |-> FALSE]

\* "$$" + latex + "$$" or "$" + latex + "$"
Fenced(latex, block) ==
  IF block THEN <<"$", "$">> \o latex \o <<"$", "$">> ELSE <<"$">> \o latex \o <<"$">>

\* fragment.querySelector(".katex, ..., [data-math]") !== null
RECURSIVE HasMath(_)
HasMath(n) ==
  \E i \in 1..Len(n.kids) :
    LET k == n.kids[i]
    IN \/ k.type = "element"
          /\ (k.cls \cap MATH_CLASSES # {} \/ k.tag \in {"mjx-container", "math"}
              \/ k.math # Empty)
       \/ HasMath(k)

\* fragment.querySelectorAll(".katex-display, .katex, .katex-html") is not empty
RECURSIVE HasOrphanClass(_)
HasOrphanClass(n) ==
  \E i \in 1..Len(n.kids) :
    \/ n.kids[i].cls \cap ORPHAN_CLASSES # {}
    \/ HasOrphanClass(n.kids[i])

\* Every KaTeX element outside a [data-math] element gets a wrapper carrying
\* `wrapper`; what is inside a wrapper is left alone.
RECURSIVE WrapOrphans(_, _)
WrapOrphans(n, wrapper) ==
  [n EXCEPT !.kids =
     [i \in 1..Len(n.kids) |->
        LET k == n.kids[i]
        IN IF k.math # Empty THEN k
           ELSE IF k.cls \cap ORPHAN_CLASSES # {}
           THEN Element(IF wrapper.block THEN "div" ELSE "span",
                        {IF wrapper.block THEN "math-block" ELSE "math-inline"},
                        wrapper.latex, <<k>>)
           ELSE WrapOrphans(k, wrapper)]]

\* mathEls: the [data-math] elements of the original document that intersect
\* the range, in document order. The first one wraps every orphan; for the
\* later ones no orphan is left.
AnnotateMathFromOriginalDOM(fragment, mathEls) ==
  IF ~HasOrphanClass(fragment) \/ mathEls = <<>> THEN fragment
  ELSE WrapOrphans(fragment, mathEls[1])

\* Steps 0a and 0b: elements of class `class` with a data-math attribute.
RECURSIVE ReplaceDataMath(_, _, _)
ReplaceDataMath(n, class, block) ==
  [n EXCEPT !.kids =
     [i \in 1..Len(n.kids) |->
        LET k == n.kids[i]
        IN IF class \in k.cls /\ k.math # Empty
           THEN TextNode(Fenced(k.math, block))
           ELSE ReplaceDataMath(k, class, block)]]

\* Steps 1 and 2: KaTeX elements of class `class`; the LaTeX is the TeX
\* annotation's text if there is an annotation, else the data-math attribute
\* of the closest [data-math] element (`closest` above n, Empty if none).
RECURSIVE ReplaceKatex(_, _, _, _)
ReplaceKatex(n, class, block, closest) ==
  [n EXCEPT !.kids =
     [i \in 1..Len(n.kids) |->
        LET k == n.kids[i]
            own == IF k.math # Empty THEN k.math ELSE closest
            annotations == Descendants(k, {"annotation"})
            latex == IF annotations # <<>> THEN TextContent(annotations[1]) ELSE own
        IN IF class \in k.cls /\ latex # Empty
           THEN TextNode(Fenced(latex, block))
           ELSE ReplaceKatex(k, class, block, own)]]

\* Step 6: hidden and duplicate math markup is removed.
RECURSIVE RemoveHidden(_)
RemoveHidden(n) ==
  LET Kept(k) == k.cls \cap HIDDEN_CLASSES = {}
      kept == SelectSeq(n.kids, Kept)
  IN [n EXCEPT !.kids = [i \in 1..Len(kept) |-> RemoveHidden(kept[i])]]

\* A replaceMathElements that runs step 2 (inline) before step 1 (display).
ReplaceMathElements_InlineFirst(root) ==
  RemoveHidden(
    ReplaceKatex(
      ReplaceKatex(
        ReplaceDataMath(ReplaceDataMath(root, "math-block", TRUE), "math-inline", FALSE),
        "katex", FALSE, Empty),
      "katex-display", TRUE, Empty))

ReplaceMathElements(root) ==
  RemoveHidden(
    ReplaceKatex(
      ReplaceKatex(
        ReplaceDataMath(ReplaceDataMath(root, "math-block", TRUE), "math-inline", FALSE),
        "katex-display", TRUE, Empty),
      "katex", FALSE, Empty))

\* A replace of the first three newlines only.
CollapseBlankLines_FirstThree(t) == StringReplace(t, <<NL, NL, NL>>, <<NL, NL>>)

\* raw.replace(/\n{3,}/g, "\n\n")
RECURSIVE CollapseBlankLines(_)
CollapseBlankLines(t) ==
  IF Len(t) >= 3 /\ t[1] = NL /\ t[2] = NL /\ t[3] = NL
  THEN CollapseBlankLines(Tail(t))
  ELSE IF t = Empty THEN Empty
  ELSE <<Head(t)>> \o CollapseBlankLines(Tail(t))

\* ------------------------------------------------------------------------
\* The HTML injectIntoContentEditable builds, and what the browser makes of it
\* ------------------------------------------------------------------------

Tag(name) == <<"<">> \o name \o <<">">>

\* escapeHTML: div.textContent = str; return div.innerHTML
RECURSIVE EscapeHTML(_)
EscapeHTML(str) ==
  IF str = Empty THEN Empty
  ELSE (CASE Head(str) = "&" -> <<"&", "a", "m", "p", ";">>
          [] Head(str) = "<" -> <<"&", "l", "t", ";">>
          [] Head(str) = ">" -> <<"&", "g", "t", ";">>
          [] OTHER -> <<Head(str)>>) \o EscapeHTML(Tail(str))

\* The parser's decoding of character references in character data.
RECURSIVE UnescapeHTML(_)
UnescapeHTML(h) ==
  IF h = Empty THEN Empty
  ELSE IF OccursAt(h, <<"&", "a", "m", "p", ";">>, 1)
       THEN <<"&">> \o UnescapeHTML(SubSeq(h, 6, Len(h)))
  ELSE IF OccursAt(h, <<"&", "l", "t", ";">>, 1)
       THEN <<"<">> \o UnescapeHTML(SubSeq(h, 5, Len(h)))
  ELSE IF OccursAt(h, <<"&", "g", "t", ";">>, 1)
       THEN <<">">> \o UnescapeHTML(SubSeq(h, 5, Len(h)))
  ELSE <<Head(h)>> \o UnescapeHTML(Tail(h))

\* A paragraph for every line, the empty one included as "<p></p>".
ParagraphHTML_NoPlaceholder(line) ==
  Tag(<<"p">>) \o EscapeHTML(line) \o Tag(<<"/", "p">>)

\* The callback of lines.map.
ParagraphHTML(line) ==
  IF line = Empty
  THEN Tag(<<"p">>) \o Tag(<<"b", "r">>) \o Tag(<<"/", "p">>)
  ELSE Tag(<<"p">>) \o EscapeHTML(line) \o Tag(<<"/", "p">>)

\* The nodes the browser parses out of a run of <p> elements that hold
\* character data or one <br> (insertHTML, innerHTML).
RECURSIVE ParseHTML(_)
ParseHTML(h) ==
  IF h = Empty THEN <<>>
  ELSE IF OccursAt(h, Tag(<<"p">>), 1) /\ IndexOf(h, Tag(<<"/", "p">>)) > 0
  THEN LET close == IndexOf(h, Tag(<<"/", "p">>))
           inner == SubSeq(h, 4, close - 1)
           kids == IF inner = Empty THEN <<>>
                   ELSE IF inner = Tag(<<"b", "r">>)
                   THEN <<Element("br", {}, Empty, <<>>)>>
                   ELSE <<TextNode(UnescapeHTML(inner))>>
       IN <<Element("p", {}, Empty, kids)>> \o ParseHTML(SubSeq(h, close + 4, Len(h)))
  ELSE <<TextNode(UnescapeHTML(h))>>

\* ------------------------------------------------------------------------
\* Configuration of content.js
\* ------------------------------------------------------------------------

PLACEHOLDER == <<"[", "S", "E", "L", "E", "C", "T", "E", "D", "]">>

HeaderLine ==
  <<"R", "e", "g", "a", "r", "d", "i", "n", "g", " ", "t", "h", "e", " ",
    "f", "o", "l", "l", "o", "w", "i", "n", "g", " ", "s", "e", "l", "e",
    "c", "t", "e", "d", " ", "c", "o", "n", "t", "e", "n", "t", ":">>

SeparatorLine == <<"-", "-", "-", "-", "-", "-">>

DEFAULT_CITATION_FORMAT ==
  HeaderLine \o <<NL>> \o SeparatorLine \o <<NL>> \o PLACEHOLDER \o <<NL>>
    \o SeparatorLine \o <<NL>>

\* Citation templates the settings store can hold in the model.
ExplainFormat == <<"E", ":", NL>> \o PLACEHOLDER

BareFormat == <<"<">> \o PLACEHOLDER \o <<">", " ">>

\* ------------------------------------------------------------------------
\* The host page
\* ------------------------------------------------------------------------

\* What findInputElement returns and what shape it has:
\*   none       no element matches INPUT_SELECTORS
\*   editable   a contenteditable element
\*   richShadow <rich-textarea> whose editable part is in its shadow tree
\*   richValue  <rich-textarea> with no editable part but a value property
\*   richGetter <rich-textarea> with no editable part and a value property
\*              that has a getter only
\*   richBare   <rich-textarea> with neither
\*   textarea   a <textarea>
\*   unknown    a matched element of none of these shapes
InputKinds ==
  {"none", "editable", "richShadow", "richValue", "richGetter", "richBare",
   "textarea", "unknown"}

\* The element findInputElement returns (found = FALSE: null): whether it is
\* contenteditable, its tag, where a <rich-textarea> keeps an inner editable
\* part, whether it has a value property ("value" in el), and whether that
\* property can be assigned.
InputElements ==
  [found : BOOLEAN, editable : BOOLEAN, tag : {"div", "rich-textarea", "textarea"},
   inner : {"none", "light", "shadow"}, hasValue : BOOLEAN, setter : BOOLEAN]

NoElement ==
  [found |-> FALSE, editable |-> FALSE, tag |-> "div", inner |-> "none",
   hasValue |-> FALSE, setter |-> FALSE]

\* One element of each shape.
ElementOf(kind) ==
  CASE kind = "editable" ->
         [found |-> TRUE, editable |-> TRUE, tag |-> "div", inner |-> "none",
          hasValue |-> FALSE, setter |-> FALSE]
    [] kind = "richShadow" ->
         [found |-> TRUE, editable |-> FALSE, tag |-> "rich-textarea",
          inner |-> "shadow", hasValue |-> FALSE, setter |-> FALSE]
    [] kind = "richValue" ->
         [found |-> TRUE, editable |-> FALSE, tag |-> "rich-textarea",
          inner |-> "none", hasValue |-> TRUE, setter |-> TRUE]
    [] kind = "richBare" ->
         [found |-> TRUE, editable |-> FALSE, tag |-> "rich-textarea",
          inner |-> "none", hasValue |-> FALSE, setter |-> FALSE]
    [] kind = "textarea" ->
         [found |-> TRUE, editable |-> FALSE, tag |-> "textarea", inner |-> "none",
          hasValue |-> TRUE, setter |-> TRUE]
    [] kind = "unknown" ->
         [found |-> TRUE, editable |-> FALSE, tag |-> "div", inner |-> "none",
          hasValue |-> FALSE, setter |-> FALSE]
    [] OTHER -> NoElement

\* A document selection as the deferred read of handleMouseUp finds it:
\*   ranges    rangeCount > 0
\*   area      where its commonAncestorContainer lies: inside a response
\*             container, inside an excluded region, inside both, in neither
\*   string    selection.toString()
\*   math      the closest [data-math] element of the container, if any
\*   mathEls   the [data-math] elements that intersect the range
\*   fragment  range.cloneContents()
\*   throws    the step of extractTextWithMath at which the DOM raises
\* The user may change the selection at any moment, so each read draws it
\* afresh; the controller only ever clears it (removeAllRanges) and never
\* reads it back.
Selection(area, string, math, mathEls, fragment) ==
  [ranges |-> TRUE, area |-> area, string |-> string, math |-> math,
   mathEls |-> mathEls, fragment |-> fragment, throws |-> "none"]

PlainTextSelection(area, string) ==
  Selection(area, string, NoWrapper, <<>>, Fragment(<<TextNode(string)>>))

NoSelection == [PlainTextSelection("neither", Empty) EXCEPT !.ranges = FALSE]

PlainSelection == PlainTextSelection("response", <<"a">>)

InputSelection == PlainTextSelection("excluded", <<"b">>)

Selections == {NoSelection, PlainSelection, InputSelection}

\* What the user types into the input surface.
UserInputs == {Empty, <<"u">>}

GestureKinds == {"click", "enter"}

NoCompose ==
  [ok |-> FALSE, raised |-> FALSE, quote |-> Empty, typed |-> Empty,
   input |-> Empty, citation |-> Empty, message |-> Empty]

NoOwnSend == [kind |-> "none", bypass |-> FALSE, quoted |-> FALSE, intercepted |-> FALSE]

VARIABLES
  \* content.js, module state
  citationFormat, quotedText, quotedDisplayText, chipVisible,
  isBypassingSend, bubbleVisible, currentSelectedText, currentDisplayText,
  \* the host page; urlChanged is location.href # lastUrl; selectionRanges:
  \* the document selection still holds the range the user selected
  inputEl, sendButton, inputText, focus, urlChanged, selectionRanges,
  \* deferred callbacks not yet run
  mouseUpTimers, frames, focusTimers, resendTimers, clearTimers,
  \* observation of the run (no effect on the program); notice is an open
  \* alert() box
  gestures, hostSends, ownSend, composed, dismissed, notice,
  \* a DOM node handed to a text function, and the text it returned or was
  \* given; inputEvents: the function dispatched synthetic input and change
  \* events
  node, nodeText, inputEvents,
  \* the one-click generation (second script of content.js): its pending
  \* text, its bubble, its deferred selection reads
  oneClickSelectedText, oneClickBubbleVisible, oneClickTimers,
  \* chrome.storage.sync: the stored template (Empty: no value), the
  \* progress of loadCitationFormat's read, and the change notifications not
  \* yet delivered to the onChanged listener
  storedFormat, loadReply, changes,
  \* popup.js: the textarea, the status line, the pending store callbacks
  \* and the pending timers that clear the status line
  formatInput, status, popupReplies, statusTimers

ctl ==
  <<citationFormat, quotedText, quotedDisplayText, chipVisible, isBypassingSend,
    bubbleVisible, currentSelectedText, currentDisplayText>>

page == <<inputEl, sendButton, inputText, focus, urlChanged, selectionRanges>>

timers == <<mouseUpTimers, frames, focusTimers, resendTimers, clearTimers>>

observed == <<gestures, hostSends, ownSend, composed, dismissed, notice>>

dom == <<node, nodeText, inputEvents>>

oneClick == <<oneClickSelectedText, oneClickBubbleVisible, oneClickTimers>>

settings == <<storedFormat, loadReply, changes>>

popup == <<formatInput, status, popupReplies, statusTimers>>

vars == <<ctl, page, timers, observed, dom, oneClick, settings, popup>>

\* ------------------------------------------------------------------------
\* Pure helpers of content.js
\* ------------------------------------------------------------------------

\* The steps of extractTextWithMath at which an error may be raised, in the
\* order they run.
ExtractSteps == <<"range", "clone", "annotate", "replace", "serialize">>

\* What a call leaves: the text it returned, or an exception thrown to the
\* caller.
Returned(text) == [threw |-> FALSE, text |-> text]

Thrown == [threw |-> TRUE, text |-> Empty]

\* The try block of extractTextWithMath: an error raised at a step the call
\* reaches leaves the block.
ExtractTry(sel) ==
  IF sel.throws = "range" THEN Thrown
  ELSE IF sel.math.latex # Empty
       THEN Returned(Fenced(sel.math.latex, sel.math.block))
  ELSE IF sel.throws = "clone" THEN Thrown
  ELSE IF ~HasMath(sel.fragment) THEN Returned(Trim(sel.string))
  ELSE IF sel.throws \in {"annotate", "replace", "serialize"} THEN Thrown
  ELSE Returned(CollapseBlankLines(Trim(GetTextFromFragment(
         ReplaceMathElements(
           AnnotateMathFromOriginalDOM(sel.fragment, sel.mathEls))))))

\* extractTextWithMath with its catch clause taken away.
ExtractTextWithMath_NoCatch(sel) ==
  IF ~sel.ranges THEN Returned(Empty) ELSE ExtractTry(sel)

\* extractTextWithMath: nothing for a selection without ranges; whatever is
\* raised inside the try block ends in the catch clause, which returns the
\* selection's trimmed string.
ExtractTextWithMath(sel) ==
  IF ~sel.ranges THEN Returned(Empty)
  ELSE IF ExtractTry(sel).threw THEN Returned(Trim(sel.string))
  ELSE ExtractTry(sel)

\* The one-click generation's quick check; its selector has no [data-math].
RECURSIVE OneClickHasMath(_)
OneClickHasMath(n) ==
  \E i \in 1..Len(n.kids) :
    LET k == n.kids[i]
    IN \/ k.type = "element"
          /\ (k.cls \cap MATH_CLASSES # {} \/ k.tag \in {"mjx-container", "math"})
       \/ OneClickHasMath(k)

\* Its steps 1 and 2: a KaTeX element of class `class` is replaced only if
\* it holds a TeX annotation.
RECURSIVE ReplaceAnnotated(_, _, _)
ReplaceAnnotated(n, class, block) ==
  [n EXCEPT !.kids =
     [i \in 1..Len(n.kids) |->
        LET k == n.kids[i]
            annotations == Descendants(k, {"annotation"})
        IN IF class \in k.cls /\ annotations # <<>>
           THEN TextNode(Fenced(TextContent(annotations[1]), block))
           ELSE ReplaceAnnotated(k, class, block)]]

\* Its step 6 removes .katex-mathml and .MathJax_Preview only.
RECURSIVE RemoveClasses(_, _)
RemoveClasses(n, classes) ==
  LET Kept(k) == k.cls \cap classes = {}
      kept == SelectSeq(n.kids, Kept)
  IN [n EXCEPT !.kids = [i \in 1..Len(kept) |-> RemoveClasses(kept[i], classes)]]

OneClickReplaceMathElements(root) ==
  RemoveClasses(
    ReplaceAnnotated(ReplaceAnnotated(root, "katex-display", TRUE), "katex", FALSE),
    {"katex-mathml", "MathJax_Preview"})

\* The try block of the one-click generation's extractTextWithMath: no
\* direct attribute path, no annotation of orphans, no collapsing.
OneClickExtractTry(sel) ==
  IF sel.throws \in {"range", "clone"} THEN Thrown
  ELSE IF ~OneClickHasMath(sel.fragment) THEN Returned(Trim(sel.string))
  ELSE IF sel.throws \in {"replace", "serialize"} THEN Thrown
  ELSE Returned(Trim(GetTextFromFragment(OneClickReplaceMathElements(sel.fragment))))

OneClickExtractTextWithMath(sel) ==
  IF ~sel.ranges THEN Returned(Empty)
  ELSE IF OneClickExtractTry(sel).threw THEN Returned(Trim(sel.string))
  ELSE OneClickExtractTry(sel)

IsValidSelectionArea(sel) ==
  IF ~sel.ranges THEN FALSE
  ELSE IF sel.area \in {"excluded", "both"} THEN FALSE
  ELSE TRUE

\* ------------------------------------------------------------------------
\* Documents of the model: plain text in every kind of region, carets, math
\* reached on both paths, tables, DOM errors
\* ------------------------------------------------------------------------

MathX == <<"x">>

\* LaTeX with two blank lines in it.
MathLines == <<"x", NL, NL, NL, "y">>

\* What the user sees of a rendered equation.
MathVisual == <<"v">>

\* KaTeX's rendering: the hidden MathML copy with the TeX annotation, and
\* the visible HTML.
Katex(latex) ==
  Element("span", {"katex"}, Empty,
    <<Element("span", {"katex-mathml"}, Empty,
        <<Element("annotation", {}, Empty, <<TextNode(latex)>>)>>),
      Element("span", {"katex-html"}, Empty, <<TextNode(MathVisual)>>)>>)

\* Gemini's wrappers around it.
MathWrapper(latex, block) ==
  IF block
  THEN Element("div", {"math-block"}, latex,
         <<Element("span", {"katex-display"}, Empty, <<Katex(latex)>>)>>)
  ELSE Element("span", {"math-inline"}, latex, <<Katex(latex)>>)

\* A selection inside one equation: the range lies within the wrapper and
\* the clone holds inner KaTeX spans only.
InsideMath(latex, block, string) ==
  Selection("response", string, [latex |-> latex, block |-> block],
            <<[latex |-> latex, block |-> block]>>,
            Fragment(<<Element("span", {"katex-html"}, Empty, <<TextNode(string)>>)>>))

\* A selection around one equation: the clone holds the whole wrapper.
AroundMath(latex, block) ==
  Selection("response", MathVisual, NoWrapper, <<[latex |-> latex, block |-> block]>>,
            Fragment(<<MathWrapper(latex, block)>>))

Cell(tag, t) == Element(tag, {}, Empty, <<TextNode(t)>>)

Row(cells) == Element("tr", {}, Empty, cells)

Table(rows) == Element("table", {}, Empty, <<Element("tbody", {}, Empty, rows)>>)

\* The table with cells A, BB / CCC, D and its visual text.
Table22 ==
  Table(<<Row(<<Cell("th", <<"A">>), Cell("th", <<"B", "B">>)>>),
          Row(<<Cell("td", <<"C", "C", "C">>), Cell("td", <<"D">>)>>)>>)

Table22Visual == <<"A", "\t", "B", "B", NL, "C", "C", "C", "\t", "D">>

TableSelection ==
  Selection("response", Table22Visual, NoWrapper, <<>>, Fragment(<<Table22>>))

TableWithMathSelection ==
  Selection("response", Table22Visual \o <<NL>> \o MathVisual, NoWrapper,
            <<[latex |-> MathX, block |-> FALSE]>>,
            Fragment(<<Table22, Element("p", {}, Empty, <<MathWrapper(MathX, FALSE)>>)>>))

\* A caret (collapsed range) placed by a click.
CaretSelection == PlainTextSelection("response", Empty)

MathSelections ==
  {InsideMath(latex, block, string) :
     latex \in {MathX, MathLines}, block \in BOOLEAN, string \in {MathVisual, Empty}}
    \cup {AroundMath(latex, block) : latex \in {MathX, MathLines}, block \in BOOLEAN}

TableSelections == {TableSelection, TableWithMathSelection}

PlainSelections ==
  {PlainSelection, InputSelection, CaretSelection,
   PlainTextSelection("both", <<"b">>),
   PlainTextSelection("neither", <<"c">>),
   PlainTextSelection("response", <<" ", "a", NL>>)}

\* Selections of each kind with the DOM raising at some step of the extraction.
ThrowingSelections ==
  {[sel EXCEPT !.throws = ExtractSteps[i]] :
     sel \in {PlainTextSelection("response", <<" ", "a", NL>>),
              InsideMath(MathX, TRUE, MathVisual), AroundMath(MathX, FALSE),
              TableWithMathSelection},
     i \in 1..Len(ExtractSteps)}

\* What stands in the input box of the documents below; no other region of
\* them holds this letter.
InputRegionText == <<"b">>

\* A selection dragged from the response into the input box (or Ctrl+A):
\* the range's commonAncestorContainer is the page body, which lies in no
\* excluded region and in no response container.
SpanningSelection ==
  Selection("neither", <<"a", NL>> \o InputRegionText, NoWrapper, <<>>,
            Fragment(<<Element("div", {}, Empty, <<TextNode(<<"a">>)>>),
                       Element("div", {}, Empty, <<TextNode(InputRegionText)>>)>>))

DocSelections ==
  {NoSelection, SpanningSelection} \cup PlainSelections \cup MathSelections
    \cup TableSelections \cup ThrowingSelections

\* extractTextWithMath of every selection of the model, computed once.
Extracted == [sel \in DocSelections |-> ExtractTextWithMath(sel)]

OneClickExtracted == [sel \in DocSelections |-> OneClickExtractTextWithMath(sel)]

\* Whether the try block raises for it, in either generation.
Raised == [sel \in DocSelections |-> ExtractTry(sel).threw]

OneClickRaised == [sel \in DocSelections |-> OneClickExtractTry(sel).threw]

\* The shape injectFormattedText finds in the element findInputElement
\* returned: directly editable first, then the composite widget (its inner
\* editable part in the light or the shadow tree, else its value property),
\* then the plain textarea.
ShapeOf(el) ==
  IF ~el.found THEN "none"
  ELSE IF el.editable THEN "editable"
  ELSE IF el.tag = "rich-textarea"
       THEN IF el.inner # "none" THEN "richShadow"
            ELSE IF el.hasValue
                 THEN IF el.setter THEN "richValue" ELSE "richGetter"
            ELSE "richBare"
  ELSE IF el.tag = "textarea" THEN "textarea"
  ELSE "unknown"

inputKind == ShapeOf(inputEl)

FindInputElement == inputKind

\* injectFormattedText's result: does a writable surface take the text?
InjectsInto(kind) == kind \in {"editable", "richShadow", "richValue", "textarea"}

\* Both scripts run in strict mode, where richTextarea.value = text throws a
\* TypeError if the property has a getter and no setter; nothing between
\* the event handler and the assignment catches it.
InjectRaises(kind) == kind = "richGetter"

\* injectIntoContentEditable and injectIntoTextarea focus the surface; the
\* value assignment on a bare <rich-textarea> does not.
InjectFocuses(kind) == kind \in {"editable", "richShadow", "textarea"}

\* injectIntoContentEditable ends with placeCursorAtEnd: removeAllRanges, then
\* a caret in the surface.
InjectPlacesCursor(kind) == kind \in {"editable", "richShadow"}

GetUserInput(kind, content) ==
  CASE kind = "none" -> Empty
    [] kind \in {"editable", "richShadow"} -> Trim(RemoveNewlines(content))
    [] kind \in {"richValue", "richGetter", "richBare"} -> Trim(content)
    [] kind = "textarea" -> Trim(content)
    [] OTHER -> Empty

Citation(format, quote) == StringReplace(format, PLACEHOLDER, quote)

\* A message that keeps the citation's trailing newline when nothing is typed.
FullMessage_NoTrim(format, quote, userInput) ==
  IF userInput # Empty
  THEN Citation(format, quote) \o <<NL>> \o userInput
  ELSE Citation(format, quote)

FullMessage(format, quote, userInput) ==
  IF userInput # Empty
  THEN Citation(format, quote) \o <<NL>> \o userInput
  ELSE TrimEnd(Citation(format, quote))

\* An interception test that does not look at the bypass flag.
InterceptsSend_IgnoresBypass == quotedText # Empty

\* A guard that does not ask for a quote.
InterceptsSend_WithoutQuote == ~isBypassingSend

\* The guard of handleSendClick and handleEnterToSend.
InterceptsSend == quotedText # Empty /\ ~isBypassingSend


\* ------------------------------------------------------------------------
\* Procedures of content.js (parts of the actions below)
\*
\* The bubble and the chip elements are created on first use (createBubble,
\* createQuoteChip). Before an element exists it is not visible and every
\* operation on it is a no-op, so only their visibility is state.
\* ------------------------------------------------------------------------

\* A hideBubble that leaves the bubble as it is.
HideBubble_LeavesBubble == bubbleVisible' = bubbleVisible

HideBubble == bubbleVisible' = FALSE

\* A hideQuoteChip that forgets only the raw text.
HideQuoteChip_KeepsDisplay ==
  /\ quotedText' = Empty
  /\ quotedDisplayText' = quotedDisplayText
  /\ chipVisible' = FALSE

HideQuoteChip ==
  /\ quotedText' = Empty
  /\ quotedDisplayText' = Empty
  /\ chipVisible' = FALSE

\* A showQuoteChip that keeps the visual text of the session it replaces.
ShowQuoteChip_KeepsOldDisplay(text, visibleText) ==
  /\ quotedText' = text
  /\ quotedDisplayText' = IF quotedDisplayText # Empty THEN quotedDisplayText
                          ELSE IF visibleText # Empty THEN visibleText ELSE text
  /\ frames' = frames + 1

\* showQuoteChip: the chip becomes visible in a later animation frame.
ShowQuoteChip(text, visibleText) ==
  /\ quotedText' = text
  /\ quotedDisplayText' = IF visibleText # Empty THEN visibleText ELSE text
  /\ frames' = frames + 1

OnConversationChange ==
  /\ HideQuoteChip
  /\ HideBubble
  /\ currentSelectedText' = Empty
  /\ currentDisplayText' = Empty

\* What one run of composeAndSend reads and builds.
Compose ==
  LET userInput == GetUserInput(FindInputElement, inputText)
  IN [ok |-> InjectsInto(FindInputElement),
      raised |-> InjectRaises(FindInputElement),
      quote |-> quotedText,
      typed |-> inputText,
      input |-> userInput,
      citation |-> Citation(citationFormat, quotedText),
      message |-> FullMessage(citationFormat, quotedText, userInput)]

\* composeAndSend with a quote present; `fired` is the number of re-send
\* timers that ran in the same step (1 when the caller is the re-send
\* callback itself).
ComposeAndSend(fired) ==
  /\ HideQuoteChip
  /\ inputText' = IF Compose.ok THEN Compose.message ELSE inputText
  /\ focus' = IF Compose.ok /\ InjectFocuses(FindInputElement) THEN "input" ELSE focus
  /\ selectionRanges' = (selectionRanges /\ ~(Compose.ok /\ InjectPlacesCursor(FindInputElement)))
  /\ isBypassingSend' = IF Compose.ok THEN TRUE ELSE isBypassingSend
  /\ resendTimers' = resendTimers - fired + (IF Compose.ok THEN 1 ELSE 0)
  /\ composed' = Compose

\* The host's own send handler: it takes the message out of the input.
HostSend == inputText' = Empty

\* ------------------------------------------------------------------------
\* Initial state: init() has run, nothing selected, nothing quoted
\* ------------------------------------------------------------------------

\* The pages of the model: the input surface and whether findSendButton
\* finds a send control.
Pages ==
  {<<"editable", TRUE>>, <<"richShadow", FALSE>>, <<"richValue", TRUE>>,
   <<"richBare", TRUE>>, <<"unknown", TRUE>>, <<"none", TRUE>>, <<"none", FALSE>>}

InitController ==
  /\ citationFormat = DEFAULT_CITATION_FORMAT
  /\ quotedText = Empty
  /\ quotedDisplayText = Empty
  /\ chipVisible = FALSE
  /\ isBypassingSend = FALSE
  /\ bubbleVisible = FALSE
  /\ currentSelectedText = Empty
  /\ currentDisplayText = Empty

InitTimers ==
  /\ mouseUpTimers = 0
  /\ frames = 0
  /\ focusTimers = 0
  /\ resendTimers = 0
  /\ clearTimers = 0

InitObserved ==
  /\ gestures = {}
  /\ hostSends = 0
  /\ ownSend = NoOwnSend
  /\ composed = NoCompose
  /\ dismissed = FALSE
  /\ notice = FALSE

\* No text function is under study.
InitDom ==
  /\ node = TextNode(Empty)
  /\ nodeText = Empty
  /\ inputEvents = FALSE

InitOneClick ==
  /\ oneClickSelectedText = Empty
  /\ oneClickBubbleVisible = FALSE
  /\ oneClickTimers = 0

\* The settings popup is not open.
PopupClosed ==
  /\ formatInput = Empty
  /\ status = ""
  /\ popupReplies = <<>>
  /\ statusTimers = 0

\* The read of loadCitationFormat has been answered and the store holds the
\* cached template.
InitSettings ==
  /\ storedFormat = citationFormat
  /\ loadReply = [state |-> "done", value |-> Empty]
  /\ changes = <<>>
  /\ PopupClosed

Init ==
  /\ InitController
  /\ InitTimers
  /\ InitObserved
  /\ InitDom
  /\ InitOneClick
  /\ InitSettings
  /\ \E pg \in Pages : inputEl = ElementOf(pg[1]) /\ sendButton = pg[2]
  /\ inputText = Empty
  /\ focus = "other"
  /\ urlChanged = FALSE
  /\ selectionRanges = FALSE

\* ------------------------------------------------------------------------
\* The user and the host page
\* ------------------------------------------------------------------------

\* The user edits the text of the input surface.
UserType ==
  /\ inputKind # "none"
  /\ inputText' \in UserInputs \ {inputText}
  /\ focus' = "input"
  /\ UNCHANGED <<inputEl, sendButton, urlChanged, selectionRanges>>
  /\ UNCHANGED <<ctl, timers, observed>>
  /\ UNCHANGED <<dom, oneClick, settings, popup>>

\* The host changes location.href (pushState, replaceState, back/forward):
\* to a new conversation, or back to the one lastUrl still names.
Navigate ==
  /\ urlChanged' = ~urlChanged
  /\ UNCHANGED <<inputEl, sendButton, inputText, focus, selectionRanges>>
  /\ UNCHANGED <<ctl, timers, observed>>
  /\ UNCHANGED <<dom, oneClick, settings, popup>>

\* ------------------------------------------------------------------------
\* Selection events
\* ------------------------------------------------------------------------

\* mousedown: target is the bubble, the input surface or the rest of the page.
HandleMouseDown(target) ==
  /\ target = "bubble" => bubbleVisible
  /\ target = "input" => inputKind # "none"
  /\ IF target # "bubble" THEN HideBubble ELSE UNCHANGED bubbleVisible
  /\ focus' = CASE target = "bubble" -> focus
                [] target = "input" -> "input"
                [] OTHER -> "other"
  /\ UNCHANGED <<citationFormat, quotedText, quotedDisplayText, chipVisible,
                 isBypassingSend, currentSelectedText, currentDisplayText>>
  /\ UNCHANGED <<inputEl, sendButton, inputText, urlChanged, selectionRanges>>
  /\ UNCHANGED <<timers, observed>>
  /\ UNCHANGED <<dom, oneClick, settings, popup>>

\* mouseup: defers the selection read unless the target is the bubble.
HandleMouseUp(onBubble) ==
  /\ onBubble => bubbleVisible
  /\ IF onBubble
     THEN UNCHANGED mouseUpTimers
     ELSE /\ mouseUpTimers < MaxPending
          /\ mouseUpTimers' = mouseUpTimers + 1
  /\ UNCHANGED <<frames, focusTimers, resendTimers, clearTimers>>
  /\ UNCHANGED <<ctl, page, observed>>
  /\ UNCHANGED <<dom, oneClick, settings, popup>>

\* The deferred selection read of handleMouseUp (setTimeout, 10 ms), finding
\* the selection sel.
MouseUpTimer(sel) ==
  /\ mouseUpTimers > 0
  /\ mouseUpTimers' = mouseUpTimers - 1
  /\ LET extracted == Extracted[sel]
     IN IF extracted.threw
        THEN UNCHANGED <<bubbleVisible, currentSelectedText, currentDisplayText>>
        ELSE IF extracted.text = Empty \/ ~IsValidSelectionArea(sel)
        THEN /\ HideBubble
             /\ currentSelectedText' = Empty
             /\ currentDisplayText' = Empty
        ELSE /\ currentSelectedText' = extracted.text
             /\ currentDisplayText' = Trim(sel.string)
             /\ bubbleVisible' = TRUE
  /\ UNCHANGED <<citationFormat, quotedText, quotedDisplayText, chipVisible,
                 isBypassingSend>>
  /\ selectionRanges' = sel.ranges
  /\ UNCHANGED <<frames, focusTimers, resendTimers, clearTimers>>
  /\ UNCHANGED <<inputEl, sendButton, inputText, focus, urlChanged, observed>>
  /\ UNCHANGED <<dom, oneClick, settings, popup>>

\* Activation of the bubble: click, Enter or Space on it. Whether a hidden
\* bubble can still be activated is the stylesheet's business, so it can.
HandleBubbleClick ==
  /\ IF currentSelectedText = Empty
     THEN /\ HideBubble
          /\ UNCHANGED <<quotedText, quotedDisplayText, currentSelectedText,
                         currentDisplayText, frames, focusTimers, composed,
                         selectionRanges>>
     ELSE /\ frames < MaxPending
          /\ focusTimers < MaxPending
          /\ ShowQuoteChip(currentSelectedText, currentDisplayText)
          /\ selectionRanges' = FALSE
          /\ HideBubble
          /\ currentSelectedText' = Empty
          /\ currentDisplayText' = Empty
          /\ focusTimers' = focusTimers + 1
          /\ composed' = NoCompose
  /\ UNCHANGED <<citationFormat, chipVisible, isBypassingSend>>
  /\ UNCHANGED <<mouseUpTimers, resendTimers, clearTimers>>
  /\ UNCHANGED <<inputEl, sendButton, inputText, focus, urlChanged>>
  /\ UNCHANGED <<gestures, hostSends, ownSend, dismissed, notice>>
  /\ UNCHANGED <<dom, oneClick, settings, popup>>

\* The animation-frame callback of showQuoteChip.
FrameCallback ==
  /\ frames > 0
  /\ frames' = frames - 1
  /\ chipVisible' = TRUE
  /\ UNCHANGED <<citationFormat, quotedText, quotedDisplayText, isBypassingSend,
                 bubbleVisible, currentSelectedText, currentDisplayText>>
  /\ UNCHANGED <<mouseUpTimers, focusTimers, resendTimers, clearTimers>>
  /\ UNCHANGED <<page, observed>>
  /\ UNCHANGED <<dom, oneClick, settings, popup>>

\* The deferred focus of handleBubbleClick (setTimeout, 100 ms).
FocusTimer ==
  /\ focusTimers > 0
  /\ focusTimers' = focusTimers - 1
  /\ focus' = IF FindInputElement # "none" THEN "input" ELSE focus
  /\ selectionRanges' = (selectionRanges /\ FindInputElement = "none")
  /\ UNCHANGED <<inputEl, sendButton, inputText, urlChanged>>
  /\ UNCHANGED <<mouseUpTimers, frames, resendTimers, clearTimers>>
  /\ UNCHANGED <<ctl, observed>>
  /\ UNCHANGED <<dom, oneClick, settings, popup>>

\* ------------------------------------------------------------------------
\* Dismissal
\* ------------------------------------------------------------------------

\* Observation: a dismissal or a conversation change fell between an
\* injection and its deferred re-send.
ObserveDismissal ==
  /\ dismissed' = (dismissed \/ resendTimers > 0)
  /\ UNCHANGED <<gestures, hostSends, ownSend, composed, notice>>

\* The chip's close button.
ChipCloseClick ==
  /\ HideQuoteChip
  /\ UNCHANGED <<citationFormat, isBypassingSend, bubbleVisible,
                 currentSelectedText, currentDisplayText>>
  /\ UNCHANGED <<page, timers, observed>>
  /\ UNCHANGED <<dom, oneClick, settings, popup>>

\* An Escape that drops the pending text and leaves the bubble up.
HandleKeyDownEscape_KeepsBubble ==
  /\ HideQuoteChip
  /\ currentSelectedText' = Empty
  /\ selectionRanges' = FALSE
  /\ ObserveDismissal
  /\ UNCHANGED <<citationFormat, isBypassingSend, bubbleVisible, currentDisplayText>>
  /\ UNCHANGED <<inputEl, sendButton, inputText, focus, urlChanged, timers>>
  /\ UNCHANGED <<dom, oneClick, settings, popup>>

\* handleKeyDown with the Escape key.
HandleKeyDownEscape ==
  /\ HideBubble
  /\ HideQuoteChip
  /\ currentSelectedText' = Empty
  /\ selectionRanges' = FALSE
  /\ ObserveDismissal
  /\ UNCHANGED <<citationFormat, isBypassingSend, currentDisplayText>>
  /\ UNCHANGED <<inputEl, sendButton, inputText, focus, urlChanged, timers>>
  /\ UNCHANGED <<dom, oneClick, settings, popup>>

\* A scroll handler that closes the session as well.
HandleScroll_DropsSession ==
  /\ HideBubble
  /\ HideQuoteChip
  /\ UNCHANGED <<citationFormat, isBypassingSend, currentSelectedText, currentDisplayText>>
  /\ UNCHANGED <<page, timers, observed>>
  /\ UNCHANGED <<dom, oneClick, settings, popup>>

\* handleScroll: the bubble is hidden.
HandleScroll ==
  /\ HideBubble
  /\ UNCHANGED <<citationFormat, quotedText, quotedDisplayText, chipVisible,
                 isBypassingSend, currentSelectedText, currentDisplayText>>
  /\ UNCHANGED <<page, timers, observed>>
  /\ UNCHANGED <<dom, oneClick, settings, popup>>

\* The resize listener only repositions the chip.
HandleResize == UNCHANGED vars

\* ------------------------------------------------------------------------
\* Send interception
\* ------------------------------------------------------------------------

\* Observation: a user gesture of `kind` was cancelled and started a compose.
ObserveIntercepted(kind) ==
  /\ gestures' = IF isBypassingSend THEN gestures \cup {kind} ELSE {kind}
  /\ hostSends' = IF isBypassingSend THEN hostSends ELSE 0
  /\ ownSend' = NoOwnSend
  /\ dismissed' = FALSE
  /\ UNCHANGED notice

\* Observation: a user gesture of `kind` reached the host as a native send.
\* Sends are counted inside a bypass window only.
ObservePassed(kind) ==
  IF isBypassingSend
  THEN /\ hostSends < MaxHostSends
       /\ gestures' = gestures \cup {kind}
       /\ hostSends' = hostSends + 1
       /\ UNCHANGED <<ownSend, composed, dismissed, notice>>
  ELSE /\ gestures' = {}
       /\ hostSends' = 0
       /\ ownSend' = NoOwnSend
       /\ composed' = NoCompose
       /\ UNCHANGED <<dismissed, notice>>

\* A user click on the recognized send control (handleSendClick, then the host).
UserClickSend ==
  /\ sendButton
  /\ IF InterceptsSend
     THEN /\ ComposeAndSend(0)
          /\ ObserveIntercepted("click")
     ELSE /\ HostSend
          /\ ObservePassed("click")
          /\ UNCHANGED <<quotedText, quotedDisplayText, chipVisible, isBypassingSend,
                         focus, selectionRanges, resendTimers>>
  /\ UNCHANGED <<citationFormat, bubbleVisible, currentSelectedText, currentDisplayText>>
  /\ UNCHANGED <<inputEl, sendButton, urlChanged>>
  /\ UNCHANGED <<mouseUpTimers, frames, focusTimers, clearTimers>>
  /\ UNCHANGED <<dom, oneClick, settings, popup>>

\* A handleEnterToSend that does not look at the Shift key.
EnterInInput_IgnoresShift(shift) == FindInputElement # "none" /\ focus = "input"

\* handleEnterToSend's conditions besides the guard, for a user keydown.
EnterInInput(shift) == ~shift /\ FindInputElement # "none" /\ focus = "input"

\* A user Enter keydown (handleEnterToSend, then the host). Outside the input
\* surface, or with Shift, the key is no send gesture.
UserEnter(shift) ==
  /\ IF InterceptsSend /\ EnterInInput(shift)
     THEN /\ ComposeAndSend(0)
          /\ ObserveIntercepted("enter")
     ELSE IF ~shift /\ focus = "input"
     THEN /\ HostSend
          /\ ObservePassed("enter")
          /\ UNCHANGED <<quotedText, quotedDisplayText, chipVisible, isBypassingSend,
                         focus, selectionRanges, resendTimers>>
     ELSE UNCHANGED <<quotedText, quotedDisplayText, chipVisible, isBypassingSend,
                      focus, selectionRanges, resendTimers,
                      inputText, observed>>
  /\ UNCHANGED <<citationFormat, bubbleVisible, currentSelectedText, currentDisplayText>>
  /\ UNCHANGED <<inputEl, sendButton, urlChanged>>
  /\ UNCHANGED <<mouseUpTimers, frames, focusTimers, clearTimers>>
  /\ UNCHANGED <<dom, oneClick, settings, popup>>

\* A re-send that tries the input surface before the send control.
OwnSendKind_EnterFirst ==
  IF FindInputElement # "none" THEN "enter"
  ELSE IF sendButton THEN "click"
  ELSE "nothing"

\* The controller's own send: sendBtn.click(), else an Enter keydown
\* dispatched on the input surface, else nothing.
OwnSendKind ==
  IF sendButton THEN "click"
  ELSE IF FindInputElement # "none" THEN "enter"
  ELSE "nothing"

\* The own send reaches the capture-phase handlers before the host.
OwnSendIntercepted ==
  \/ OwnSendKind = "click" /\ InterceptsSend
  \/ OwnSendKind = "enter" /\ InterceptsSend /\ focus = "input"

\* The deferred re-send of composeAndSend (setTimeout, 200 ms).
ResendTimer ==
  /\ resendTimers > 0
  /\ ownSend' = [kind |-> OwnSendKind, bypass |-> isBypassingSend,
                 quoted |-> quotedText # Empty, intercepted |-> OwnSendIntercepted]
  /\ IF OwnSendIntercepted
     THEN /\ ComposeAndSend(1)
          /\ UNCHANGED hostSends
     ELSE /\ resendTimers' = resendTimers - 1
          /\ IF OwnSendKind = "nothing"
             THEN UNCHANGED <<inputText, hostSends>>
             ELSE HostSend /\ hostSends' = hostSends + 1
          /\ UNCHANGED <<quotedText, quotedDisplayText, chipVisible, isBypassingSend,
                         focus, selectionRanges, composed>>
  /\ clearTimers' = clearTimers + 1
  /\ dismissed' = FALSE
  /\ UNCHANGED <<gestures, notice>>
  /\ UNCHANGED <<citationFormat, bubbleVisible, currentSelectedText, currentDisplayText>>
  /\ UNCHANGED <<inputEl, sendButton, urlChanged>>
  /\ UNCHANGED <<mouseUpTimers, frames, focusTimers>>
  /\ UNCHANGED <<dom, oneClick, settings, popup>>

\* An inner timer that runs and leaves the flag set.
ClearBypassTimer_KeepsFlag ==
  /\ clearTimers > 0
  /\ clearTimers' = clearTimers - 1
  /\ UNCHANGED <<ctl, page, observed>>
  /\ UNCHANGED <<mouseUpTimers, frames, focusTimers, resendTimers>>
  /\ UNCHANGED <<dom, oneClick, settings, popup>>

\* An inner timer that clears the flag and stays pending, as an interval
\* would.
ClearBypassTimer_StaysPending ==
  /\ clearTimers > 0
  /\ isBypassingSend' = FALSE
  /\ gestures' = {}
  /\ hostSends' = 0
  /\ ownSend' = NoOwnSend
  /\ composed' = NoCompose
  /\ dismissed' = FALSE
  /\ UNCHANGED notice
  /\ UNCHANGED <<citationFormat, quotedText, quotedDisplayText, chipVisible,
                 bubbleVisible, currentSelectedText, currentDisplayText>>
  /\ UNCHANGED <<page, timers>>
  /\ UNCHANGED <<dom, oneClick, settings, popup>>

\* The deferred clearing of the bypass flag (setTimeout, 300 ms after the re-send).
ClearBypassTimer ==
  /\ clearTimers > 0
  /\ clearTimers' = clearTimers - 1
  /\ isBypassingSend' = FALSE
  /\ gestures' = {}
  /\ hostSends' = 0
  /\ ownSend' = NoOwnSend
  /\ composed' = NoCompose
  /\ dismissed' = FALSE
  /\ UNCHANGED notice
  /\ UNCHANGED <<citationFormat, quotedText, quotedDisplayText, chipVisible,
                 bubbleVisible, currentSelectedText, currentDisplayText>>
  /\ UNCHANGED <<mouseUpTimers, frames, focusTimers, resendTimers>>
  /\ UNCHANGED page
  /\ UNCHANGED <<dom, oneClick, settings, popup>>

\* ------------------------------------------------------------------------
\* Conversation change
\* ------------------------------------------------------------------------

\* The URL check of the 500 ms poll and of the popstate timer (50 ms after
\* popstate): if (newUrl !== lastUrl) { lastUrl = newUrl; onConversationChange() }
CheckUrl ==
  /\ IF urlChanged
     THEN /\ urlChanged' = FALSE
          /\ OnConversationChange
          /\ ObserveDismissal
          /\ UNCHANGED <<citationFormat, isBypassingSend>>
     ELSE UNCHANGED <<ctl, urlChanged, observed>>
  /\ UNCHANGED <<inputEl, sendButton, inputText, focus, selectionRanges>>
  /\ UNCHANGED timers
  /\ UNCHANGED <<dom, oneClick, settings, popup>>

\* The MutationObserver callback; `markers` says whether a removed subtree
\* holds response markers.
ConversationObserver(markers) ==
  /\ IF quotedText # Empty /\ markers
     THEN /\ OnConversationChange
          /\ ObserveDismissal
          /\ UNCHANGED <<citationFormat, isBypassingSend>>
     ELSE UNCHANGED <<ctl, observed>>
  /\ UNCHANGED <<page, timers>>
  /\ UNCHANGED <<dom, oneClick, settings, popup>>

\* ------------------------------------------------------------------------
\* The controller in its page
\* ------------------------------------------------------------------------

\* ------------------------------------------------------------------------
\* The one-click generation: its own listeners on the same page
\* ------------------------------------------------------------------------

\* injectTextToInput: alert() when findInputElement finds nothing, else the
\* formatted citation goes into the surface of a known shape.
InjectTextToInput(text) ==
  /\ notice' = (notice \/ FindInputElement = "none")
  /\ inputText' = IF InjectsInto(FindInputElement)
                  THEN Citation(citationFormat, text)
                  ELSE inputText
  /\ focus' = IF InjectFocuses(FindInputElement) THEN "input" ELSE focus

\* Its mouseup handler: defers the selection read unless the target is its
\* bubble.
OneClickHandleMouseUp(onBubble) ==
  /\ onBubble => oneClickBubbleVisible
  /\ IF onBubble
     THEN UNCHANGED oneClickTimers
     ELSE /\ oneClickTimers < MaxPending
          /\ oneClickTimers' = oneClickTimers + 1
  /\ UNCHANGED <<oneClickSelectedText, oneClickBubbleVisible>>
  /\ UNCHANGED <<ctl, page, timers, observed, dom, settings, popup>>

\* Its deferred selection read, finding the selection sel.
OneClickMouseUpTimer(sel) ==
  /\ oneClickTimers > 0
  /\ oneClickTimers' = oneClickTimers - 1
  /\ LET extracted == OneClickExtracted[sel]
     IN IF extracted.threw
        THEN UNCHANGED <<oneClickSelectedText, oneClickBubbleVisible>>
        ELSE IF extracted.text = Empty \/ ~IsValidSelectionArea(sel)
        THEN /\ oneClickBubbleVisible' = FALSE
             /\ oneClickSelectedText' = Empty
        ELSE /\ oneClickSelectedText' = extracted.text
             /\ oneClickBubbleVisible' = TRUE
  /\ selectionRanges' = sel.ranges
  /\ UNCHANGED <<inputEl, sendButton, inputText, focus, urlChanged>>
  /\ UNCHANGED <<ctl, timers, observed, dom, settings, popup>>

\* Activation of its bubble: the citation is written into the input at once.
OneClickHandleBubbleClick ==
  /\ IF oneClickSelectedText = Empty
     THEN UNCHANGED <<inputText, focus, notice, selectionRanges>>
     ELSE /\ InjectTextToInput(oneClickSelectedText)
          /\ selectionRanges' = FALSE
  /\ oneClickBubbleVisible' = FALSE
  /\ oneClickSelectedText' = Empty
  /\ UNCHANGED oneClickTimers
  /\ UNCHANGED <<inputEl, sendButton, urlChanged>>
  /\ UNCHANGED <<gestures, hostSends, ownSend, composed, dismissed>>
  /\ UNCHANGED <<ctl, timers, dom, settings, popup>>

\* Its mousedown (outside its bubble) and scroll handlers.
OneClickHideBubble ==
  /\ oneClickBubbleVisible' = FALSE
  /\ UNCHANGED <<oneClickSelectedText, oneClickTimers>>
  /\ UNCHANGED <<ctl, page, timers, observed, dom, settings, popup>>

\* Its keydown handler on Escape.
OneClickHandleKeyDownEscape ==
  /\ oneClickBubbleVisible' = FALSE
  /\ oneClickSelectedText' = Empty
  /\ selectionRanges' = FALSE
  /\ UNCHANGED oneClickTimers
  /\ UNCHANGED <<inputEl, sendButton, inputText, focus, urlChanged>>
  /\ UNCHANGED <<ctl, timers, observed, dom, settings, popup>>

\* The user closes the alert box.
CloseNotice ==
  /\ notice
  /\ notice' = FALSE
  /\ UNCHANGED <<gestures, hostSends, ownSend, composed, dismissed>>
  /\ UNCHANGED <<ctl, page, timers, dom, oneClick, settings, popup>>

Next ==
  \/ UserType
  \/ Navigate
  \/ \E target \in {"bubble", "input", "page"} : HandleMouseDown(target)
  \/ \E onBubble \in BOOLEAN : HandleMouseUp(onBubble)
  \/ \E sel \in Selections : MouseUpTimer(sel)
  \/ HandleBubbleClick
  \/ FrameCallback
  \/ FocusTimer
  \/ ChipCloseClick
  \/ HandleKeyDownEscape
  \/ HandleScroll
  \/ HandleResize
  \/ UserClickSend
  \/ \E shift \in BOOLEAN : UserEnter(shift)
  \/ ResendTimer
  \/ ClearBypassTimer
  \/ CheckUrl
  \/ \E markers \in BOOLEAN : ConversationObserver(markers)

Spec == Init /\ [][Next]_vars

\* ------------------------------------------------------------------------
\* Composition over many texts: a quote is present, the user sends
\* ------------------------------------------------------------------------

QuoteAlphabet == {"$", "&", "'", "a", "["}

\* Extracted texts: non-empty, trimmed.
QuoteTexts ==
  UNION {[1..n -> QuoteAlphabet] : n \in 1..MaxQuoteLen}
    \cup {PLACEHOLDER, <<"$", "$", "x", "$", "$">>, <<"a", NL, "b">>}

Formats == {DEFAULT_CITATION_FORMAT, ExplainFormat, BareFormat}

TypedTexts == {Empty, <<" ">>, <<"u">>, <<" ", "u", NL, "v", NL>>}

ComposePages == Pages \cup {<<"textarea", TRUE>>}

InitCompose ==
  /\ citationFormat \in Formats
  /\ quotedText \in QuoteTexts
  /\ quotedDisplayText = quotedText
  /\ chipVisible = TRUE
  /\ isBypassingSend = FALSE
  /\ bubbleVisible = FALSE
  /\ currentSelectedText = Empty
  /\ currentDisplayText = Empty
  /\ InitTimers
  /\ InitObserved
  /\ InitDom
  /\ InitOneClick
  /\ InitSettings
  /\ \E pg \in ComposePages : inputEl = ElementOf(pg[1]) /\ sendButton = pg[2]
  /\ inputText \in IF inputKind = "none" THEN {Empty} ELSE TypedTexts
  /\ focus = IF inputKind = "none" THEN "other" ELSE "input"
  /\ urlChanged = FALSE
  /\ selectionRanges = FALSE

NextCompose ==
  \/ UserClickSend
  \/ UserEnter(FALSE)
  \/ ResendTimer
  \/ ClearBypassTimer

SpecCompose == InitCompose /\ [][NextCompose]_vars

\* ------------------------------------------------------------------------
\* Selection and capture over many documents
\* ------------------------------------------------------------------------

InitSelect ==
  /\ InitController
  /\ InitTimers
  /\ InitObserved
  /\ InitDom
  /\ InitOneClick
  /\ InitSettings
  /\ inputEl = ElementOf("editable")
  /\ sendButton = TRUE
  /\ inputText = Empty
  /\ focus = "other"
  /\ urlChanged = FALSE
  /\ selectionRanges = FALSE

NextSelect ==
  \/ \E target \in {"bubble", "input", "page"} : HandleMouseDown(target)
  \/ \E onBubble \in BOOLEAN : HandleMouseUp(onBubble)
  \/ \E sel \in DocSelections : MouseUpTimer(sel)
  \/ HandleBubbleClick
  \/ FrameCallback
  \/ FocusTimer
  \/ ChipCloseClick
  \/ HandleKeyDownEscape
  \/ HandleScroll

SpecSelect == InitSelect /\ [][NextSelect]_vars

\* The pending text under every event that reads, shows, commits or drops
\* it, conversation changes included, over selections of each kind: none,
\* plain, in the input box, spanning, inside and around an equation, and
\* one for which the DOM raises.
PendingSelections ==
  {NoSelection, PlainSelection, InputSelection, SpanningSelection,
   InsideMath(MathX, TRUE, MathVisual), InsideMath(MathLines, FALSE, Empty),
   AroundMath(MathX, FALSE),
   [InsideMath(MathX, TRUE, MathVisual) EXCEPT !.throws = "range"]}

NextPending ==
  \/ Navigate
  \/ \E target \in {"bubble", "input", "page"} : HandleMouseDown(target)
  \/ \E onBubble \in BOOLEAN : HandleMouseUp(onBubble)
  \/ \E sel \in PendingSelections : MouseUpTimer(sel)
  \/ HandleBubbleClick
  \/ FrameCallback
  \/ FocusTimer
  \/ ChipCloseClick
  \/ HandleKeyDownEscape
  \/ HandleScroll
  \/ HandleResize
  \/ CheckUrl
  \/ \E markers \in BOOLEAN : ConversationObserver(markers)

SpecPending == InitSelect /\ [][NextPending]_vars

\* ------------------------------------------------------------------------
\* Extraction in both generations, DOM errors included
\* ------------------------------------------------------------------------

NextExtract ==
  \/ \E onBubble \in BOOLEAN : HandleMouseUp(onBubble)
  \/ \E sel \in DocSelections : MouseUpTimer(sel)
  \/ \E onBubble \in BOOLEAN : OneClickHandleMouseUp(onBubble)
  \/ \E sel \in DocSelections : OneClickMouseUpTimer(sel)
  \/ OneClickHandleKeyDownEscape

SpecExtract == InitSelect /\ [][NextExtract]_vars

\* ------------------------------------------------------------------------
\* Both generations writing into the input of the same page
\* ------------------------------------------------------------------------

NextOneClick ==
  \/ UserType
  \/ \E onBubble \in BOOLEAN : HandleMouseUp(onBubble)
  \/ \E sel \in Selections : MouseUpTimer(sel)
  \/ HandleBubbleClick
  \/ FrameCallback
  \/ FocusTimer
  \/ UserClickSend
  \/ \E shift \in BOOLEAN : UserEnter(shift)
  \/ ResendTimer
  \/ ClearBypassTimer
  \/ \E onBubble \in BOOLEAN : OneClickHandleMouseUp(onBubble)
  \/ \E sel \in Selections : OneClickMouseUpTimer(sel)
  \/ OneClickHandleBubbleClick
  \/ OneClickHideBubble
  \/ OneClickHandleKeyDownEscape
  \/ CloseNotice

SpecOneClick == Init /\ [][NextOneClick]_vars

\* ------------------------------------------------------------------------
\* tableToMarkdown over tables of bounded size
\* ------------------------------------------------------------------------

MaxRows == 2

MaxCols == 2

\* Cell texts over an alphabet with the pipe, the space and the newline.
CellTexts == {<<"a">>, <<"|">>, <<" ">>, <<"a", NL, "b">>}

\* The cell texts of a table of r rows and c columns.
TableRows(r, c) == [1..r -> [1..c -> CellTexts]]

\* The header row holds <th> cells, the others <td> cells.
TableOf(cells) ==
  Table([i \in 1..Len(cells) |->
           Row([j \in 1..Len(cells[i]) |->
                  Cell(IF i = 1 THEN "th" ELSE "td", cells[i][j])])])

\* The table without rows, and every table of up to maxRows rows and
\* maxCols columns.
Tables(maxRows, maxCols) ==
  {Table(<<>>)} \cup
    UNION {{TableOf(cells) : cells \in TableRows(r, c)} : r \in 1..maxRows, c \in 1..maxCols}

InitTable ==
  /\ InitController
  /\ InitTimers
  /\ InitObserved
  /\ InitOneClick
  /\ InitSettings
  /\ inputEl = ElementOf("editable")
  /\ sendButton = TRUE
  /\ inputText = Empty
  /\ focus = "other"
  /\ urlChanged = FALSE
  /\ selectionRanges = FALSE
  /\ node \in Tables(MaxRows, MaxCols)
  /\ nodeText = Empty
  /\ inputEvents = FALSE

\* getTextFromFragment reaches the <table> and calls tableToMarkdown on it.
ConvertTable ==
  /\ node.tag = "table"
  /\ nodeText' = TableToMarkdown(node)
  /\ node' = TextNode(nodeText')
  /\ UNCHANGED inputEvents
  /\ UNCHANGED <<ctl, page, timers, observed, oneClick, settings, popup>>

SpecTable == InitTable /\ [][ConvertTable]_vars

\* Tables whose rows differ in cell count (none to MaxCols), with cells
\* shorter and longer than the minimum width and cells with outer blanks
\* and a run of newlines.
InitRaggedTable ==
  /\ InitController
  /\ InitTimers
  /\ InitObserved
  /\ InitOneClick
  /\ InitSettings
  /\ inputEl = ElementOf("editable")
  /\ sendButton = TRUE
  /\ inputText = Empty
  /\ focus = "other"
  /\ urlChanged = FALSE
  /\ selectionRanges = FALSE
  /\ LET texts == {<<"a">>, <<" ", "a", "b", NL, NL, "c", " ">>}
         rowsOf == UNION {[1..c -> texts] : c \in 0..MaxCols}
         tables == UNION {[1..r -> rowsOf] : r \in 1..MaxRows}
     IN node \in {TableOf(cells) : cells \in tables}
  /\ nodeText = Empty
  /\ inputEvents = FALSE

SpecRaggedTable == InitRaggedTable /\ [][ConvertTable]_vars

\* ------------------------------------------------------------------------
\* Injection into every kind of element findInputElement may return
\* ------------------------------------------------------------------------

\* null has no features; a <textarea> has an assignable value; only a value
\* property that exists can have a setter.
MatchedElements ==
  {el \in InputElements :
     /\ ~el.found => el = NoElement
     /\ el.setter => el.hasValue
     /\ el.tag = "textarea" => el.setter}

InitInject ==
  /\ citationFormat = DEFAULT_CITATION_FORMAT
  /\ quotedText = <<"a">>
  /\ quotedDisplayText = quotedText
  /\ chipVisible = TRUE
  /\ isBypassingSend = FALSE
  /\ bubbleVisible = FALSE
  /\ currentSelectedText = Empty
  /\ currentDisplayText = Empty
  /\ InitTimers
  /\ InitObserved
  /\ InitDom
  /\ InitOneClick
  /\ InitSettings
  /\ inputEl \in MatchedElements
  /\ sendButton \in BOOLEAN
  /\ inputText \in IF inputKind = "none" THEN {Empty} ELSE UserInputs
  /\ focus = IF inputKind = "none" THEN "other" ELSE "input"
  /\ urlChanged = FALSE
  /\ selectionRanges = FALSE

SpecInject == InitInject /\ [][NextCompose]_vars

\* Quoting and sending on every page, the user quoting again at any moment,
\* the bypass window included.
NextRequote ==
  \/ NextCompose
  \/ \E onBubble \in BOOLEAN : HandleMouseUp(onBubble)
  \/ \E sel \in Selections : MouseUpTimer(sel)
  \/ HandleBubbleClick
  \/ FrameCallback
  \/ FocusTimer

SpecRequote == Init /\ [][NextRequote]_vars

\* The same on one page with every other event of the session: mousedown,
\* dismissals, scroll, resize and conversation changes.
NextSession ==
  \/ NextRequote
  \/ \E target \in {"bubble", "input", "page"} : HandleMouseDown(target)
  \/ ChipCloseClick
  \/ HandleKeyDownEscape
  \/ HandleScroll
  \/ HandleResize
  \/ Navigate
  \/ CheckUrl
  \/ \E markers \in BOOLEAN : ConversationObserver(markers)

SpecSession == InitSelect /\ [][NextSession]_vars

\* ------------------------------------------------------------------------
\* Text and DOM steps over many inputs: the blank-line collapse, the
\* paragraphs, the replacement of math
\* ------------------------------------------------------------------------

MaxTextLen == 4

MaxRegions == 2

\* Every text of up to maxLen characters over a letter, the newline and two
\* characters HTML escapes.
TextsUpTo(maxLen) == UNION {[1..n -> {"a", NL, "<", "&"}] : n \in 0..maxLen}

\* A text with two runs of newlines to collapse.
TwoRuns == <<"a", NL, NL, NL, "b", NL, NL, NL, NL, "c">>

\* One rendered equation of source `latex` as a cloned fragment may hold it:
\* with or without Gemini's [data-math] wrapper, display or inline, KaTeX's
\* hidden MathML copy with or without the TeX annotation beside the visible
\* HTML.
SourcedRegion(latex, wrapped, block, annotated) ==
  LET mathml == Element("span", {"katex-mathml"}, Empty,
                  <<TextNode(MathVisual)>> \o
                    (IF annotated
                     THEN <<Element("annotation", {}, Empty, <<TextNode(latex)>>)>>
                     ELSE <<>>))
      katex == Element("span", {"katex"}, Empty,
                 <<mathml, Element("span", {"katex-html"}, Empty, <<TextNode(MathVisual)>>)>>)
      inner == IF block THEN Element("span", {"katex-display"}, Empty, <<katex>>)
               ELSE katex
  IN IF wrapped
     THEN Element(IF block THEN "div" ELSE "span",
                  {IF block THEN "math-block" ELSE "math-inline"}, latex, <<inner>>)
     ELSE inner

\* The rendered equation x.
MathRegion(wrapped, block, annotated) == SourcedRegion(MathX, wrapped, block, annotated)

\* Fragments of one to maxRegions equations with the text "a" between them.
MathFragments(maxRegions) ==
  LET regions == {MathRegion(w, b, a) : w \in BOOLEAN, b \in BOOLEAN, a \in BOOLEAN}
      Spaced(seq) == [i \in 1..(2 * Len(seq) - 1) |->
                        IF i % 2 = 1 THEN seq[(i + 1) \div 2] ELSE TextNode(<<"a">>)]
  IN {Fragment(Spaced(seq)) : seq \in UNION {[1..n -> regions] : n \in 1..maxRegions}}

\* Either a raw text about to be collapsed, or a directly editable surface,
\* empty or holding a paragraph, and the text about to be injected, or a
\* cloned fragment holding equations.
InitText ==
  /\ InitController
  /\ InitTimers
  /\ InitObserved
  /\ InitOneClick
  /\ InitSettings
  /\ inputEl = ElementOf("editable")
  /\ sendButton = TRUE
  /\ inputText = Empty
  /\ focus = "other"
  /\ urlChanged = FALSE
  /\ selectionRanges = FALSE
  /\ inputEvents = FALSE
  /\ \/ \E t \in TextsUpTo(MaxTextLen) \cup {TwoRuns} :
          \/ node = TextNode(t) /\ nodeText = Empty
          \/ /\ node \in {Element("div", {}, Empty, previous) :
                             previous \in {<<>>, ParseHTML(ParagraphHTML(<<"o">>))}}
             /\ nodeText = t
     \/ node \in MathFragments(MaxRegions) /\ nodeText = Empty

\* extractTextWithMath's last step on the raw text.
CollapseText ==
  /\ node.type = "text"
  /\ nodeText' = CollapseBlankLines(node.text)
  /\ node' = TextNode(nodeText')
  /\ UNCHANGED inputEvents
  /\ UNCHANGED <<ctl, page, timers, observed, oneClick, settings, popup>>

\* injectIntoContentEditable(node, nodeText); success is what
\* execCommand("insertHTML") returned. After selectAll and delete the
\* command puts the parsed HTML in place of the content; the innerHTML
\* assignment does the same.
InjectIntoContentEditable(success) ==
  /\ node.type = "element"
  /\ node' = [node EXCEPT !.kids =
                ParseHTML(Concat([i \in 1..Len(Lines(nodeText)) |->
                                   ParagraphHTML(Lines(nodeText)[i])]))]
  /\ inputEvents' = ~success
  /\ UNCHANGED nodeText
  /\ UNCHANGED <<ctl, page, timers, observed, oneClick, settings, popup>>

\* replaceMathElements on the fresh clone, then its serialization.
ReplaceMath ==
  /\ node \in MathFragments(MaxRegions)
  /\ node' = ReplaceMathElements(node)
  /\ nodeText' = GetTextFromFragment(node')
  /\ UNCHANGED inputEvents
  /\ UNCHANGED <<ctl, page, timers, observed, oneClick, settings, popup>>

\* The same in the one-click generation.
OneClickReplaceMath ==
  /\ node \in MathFragments(MaxRegions)
  /\ node' = OneClickReplaceMathElements(node)
  /\ nodeText' = GetTextFromFragment(node')
  /\ UNCHANGED inputEvents
  /\ UNCHANGED <<ctl, page, timers, observed, oneClick, settings, popup>>

NextText ==
  \/ CollapseText
  \/ \E success \in BOOLEAN : InjectIntoContentEditable(success)
  \/ ReplaceMath
  \/ OneClickReplaceMath

SpecText == InitText /\ [][NextText]_vars

\* ------------------------------------------------------------------------
\* Extraction of a selection holding several equations, each with a source
\* of its own, in both generations
\* ------------------------------------------------------------------------

\* The source of the i-th equation of a selection.
Notation(i) == <<(<<"x", "y", "z", "w">>)[i]>>

\* Clones of ranges over one to maxRegions equations with the text "a"
\* between them; the range starts and ends outside every equation.
MixedFragments(maxRegions) ==
  LET Regions(n) == [1..n -> [w : BOOLEAN, b : BOOLEAN, a : BOOLEAN]]
      Spaced(seq) ==
        [i \in 1..(2 * Len(seq) - 1) |->
           IF i % 2 = 1
           THEN SourcedRegion(Notation((i + 1) \div 2), seq[(i + 1) \div 2].w,
                              seq[(i + 1) \div 2].b, seq[(i + 1) \div 2].a)
           ELSE TextNode(<<"a">>)]
  IN {Fragment(Spaced(seq)) : seq \in UNION {Regions(n) : n \in 1..maxRegions}}

\* searchRoot.querySelectorAll("[data-math]") filtered by
\* range.intersectsNode: the wrappers of the selected equations, in document
\* order.
MathElsOf(fragment) ==
  LET wrappers == SelectSeq(fragment.kids, LAMBDA k : k.math # Empty)
  IN [i \in 1..Len(wrappers) |->
        [latex |-> wrappers[i].math, block |-> "math-block" \in wrappers[i].cls]]

\* selection.toString() of such a range: the text between the equations and
\* what each equation shows.
VisualString(fragment) ==
  Concat([i \in 1..Len(fragment.kids) |->
            IF fragment.kids[i].type = "text" THEN fragment.kids[i].text
            ELSE MathVisual])

\* The selection whose range clones to `fragment`, in a response.
MixedSelection(fragment) ==
  Selection("response", VisualString(fragment), NoWrapper, MathElsOf(fragment), fragment)

InitMixed ==
  /\ InitController
  /\ InitTimers
  /\ InitObserved
  /\ InitOneClick
  /\ InitSettings
  /\ inputEl = ElementOf("editable")
  /\ sendButton = TRUE
  /\ inputText = Empty
  /\ focus = "other"
  /\ urlChanged = FALSE
  /\ selectionRanges = FALSE
  /\ inputEvents = FALSE
  /\ node \in MixedFragments(MaxRegions)
  /\ nodeText = Empty

\* extractTextWithMath of the selection that clones to node; node becomes
\* the processed clone and nodeText the text returned.
ExtractMixed ==
  /\ node \in MixedFragments(MaxRegions)
  /\ node' = ReplaceMathElements(
                AnnotateMathFromOriginalDOM(node, MixedSelection(node).mathEls))
  /\ nodeText' = ExtractTextWithMath(MixedSelection(node)).text
  /\ UNCHANGED inputEvents
  /\ UNCHANGED <<ctl, page, timers, observed, oneClick, settings, popup>>

\* The same in the one-click generation.
OneClickExtractMixed ==
  /\ node \in MixedFragments(MaxRegions)
  /\ node' = OneClickReplaceMathElements(node)
  /\ nodeText' = OneClickExtractTextWithMath(MixedSelection(node)).text
  /\ UNCHANGED inputEvents
  /\ UNCHANGED <<ctl, page, timers, observed, oneClick, settings, popup>>

NextMixed == ExtractMixed \/ OneClickExtractMixed

SpecMixed == InitMixed /\ [][NextMixed]_vars

\* ------------------------------------------------------------------------
\* The deferred re-send on a page the host re-renders, with fair timers
\* ------------------------------------------------------------------------

\* The host re-renders: findInputElement and findSendButton query the live
\* document at every call, and what they find is now pg. A surface of
\* another kind is a new, empty, unfocused element.
HostRender(pg) ==
  /\ <<inputKind, sendButton>> # pg
  /\ inputEl' = ElementOf(pg[1])
  /\ sendButton' = pg[2]
  /\ inputText' = IF pg[1] = inputKind THEN inputText ELSE Empty
  /\ focus' = IF pg[1] = inputKind THEN focus ELSE "other"
  /\ UNCHANGED <<urlChanged, selectionRanges>>
  /\ UNCHANGED <<ctl, timers, observed>>
  /\ UNCHANGED <<dom, oneClick, settings, popup>>

NextResend ==
  \/ UserClickSend
  \/ UserEnter(FALSE)
  \/ ResendTimer
  \/ ClearBypassTimer
  \/ \E pg \in Pages : HostRender(pg)

\* A setTimeout callback that is due does run: the page stays loaded.
SpecResend ==
  /\ InitInject
  /\ [][NextResend]_vars
  /\ WF_vars(ResendTimer)
  /\ WF_vars(ClearBypassTimer)

\* ------------------------------------------------------------------------
\* The settings store: the initial read and the change notifications
\* ------------------------------------------------------------------------

\* What the store may hold: a template saved by the popup, or nothing.
StoreValues == Formats \cup {Empty}

\* items.citationFormat || DEFAULT_CITATION_FORMAT
OrDefault(value) == IF value = Empty THEN DEFAULT_CITATION_FORMAT ELSE value

\* init() has run: with chrome.storage the read is requested and the
\* listener registered; without it nothing is.
InitSettingsLoad ==
  /\ InitController
  /\ InitTimers
  /\ InitObserved
  /\ InitDom
  /\ InitOneClick
  /\ inputEl = ElementOf("editable")
  /\ sendButton = TRUE
  /\ inputText = Empty
  /\ focus = "other"
  /\ urlChanged = FALSE
  /\ selectionRanges = FALSE
  /\ storedFormat \in StoreValues
  /\ loadReply \in {[state |-> "requested", value |-> Empty],
                    [state |-> "unreachable", value |-> Empty]}
  /\ changes = <<>>
  /\ PopupClosed

\* The store answers chrome.storage.sync.get with the value it holds now.
StorageGet ==
  /\ loadReply.state = "requested"
  /\ loadReply' = [state |-> "read", value |-> storedFormat]
  /\ UNCHANGED <<storedFormat, changes>>
  /\ UNCHANGED <<ctl, page, timers, observed, dom, oneClick, popup>>

\* The callback of loadCitationFormat runs with the answer.
LoadCallback ==
  /\ loadReply.state = "read"
  /\ citationFormat' = OrDefault(loadReply.value)
  /\ loadReply' = [state |-> "done", value |-> Empty]
  /\ UNCHANGED <<storedFormat, changes>>
  /\ UNCHANGED <<quotedText, quotedDisplayText, chipVisible, isBypassingSend,
                 bubbleVisible, currentSelectedText, currentDisplayText>>
  /\ UNCHANGED <<page, timers, observed, dom, oneClick, popup>>

\* The popup (Save, Reset) or a synchronizing peer writes the store; a
\* change of the value is notified to the listener, if one is registered.
StorageSet(value) ==
  /\ loadReply.state # "unreachable"
  /\ value # storedFormat
  /\ Len(changes) < MaxChanges
  /\ storedFormat' = value
  /\ changes' = Append(changes, value)
  /\ UNCHANGED loadReply
  /\ UNCHANGED <<ctl, page, timers, observed, dom, oneClick, popup>>

\* The onChanged listener runs with the oldest undelivered notification.
OnChanged ==
  /\ changes # <<>>
  /\ citationFormat' = OrDefault(Head(changes))
  /\ changes' = Tail(changes)
  /\ UNCHANGED <<storedFormat, loadReply>>
  /\ UNCHANGED <<quotedText, quotedDisplayText, chipVisible, isBypassingSend,
                 bubbleVisible, currentSelectedText, currentDisplayText>>
  /\ UNCHANGED <<page, timers, observed, dom, oneClick, popup>>

NextSettings ==
  \/ StorageGet
  \/ LoadCallback
  \/ \E value \in StoreValues : StorageSet(value)
  \/ OnChanged

SpecSettings == InitSettingsLoad /\ [][NextSettings]_vars

\* ------------------------------------------------------------------------
\* The settings popup (popup.js)
\* ------------------------------------------------------------------------

\* Longest prefix of the templates the store holds when the popup opens.
MaxTemplateLen == 2

\* toDisplay: every newline becomes the two characters backslash, n.
RECURSIVE toDisplay(_)
toDisplay(str) ==
  IF str = Empty THEN Empty
  ELSE IF Head(str) = NL THEN <<"\\", "n">> \o toDisplay(Tail(str))
  ELSE <<Head(str)>> \o toDisplay(Tail(str))

\* fromDisplay: every backslash that is followed by n becomes, with the n,
\* one newline; matches are taken left to right and do not overlap.
RECURSIVE fromDisplay(_)
fromDisplay(str) ==
  IF str = Empty THEN Empty
  ELSE IF Len(str) >= 2 /\ str[1] = "\\" /\ str[2] = "n"
       THEN <<NL>> \o fromDisplay(Tail(Tail(str)))
  ELSE <<Head(str)>> \o fromDisplay(Tail(str))

RECURSIVE TextsOver(_, _)
TextsOver(alphabet, maxLen) ==
  IF maxLen = 0 THEN {Empty}
  ELSE LET shorter == TextsOver(alphabet, maxLen - 1)
       IN shorter \cup {<<c>> \o t : c \in alphabet, t \in {u \in shorter : Len(u) = maxLen - 1}}

\* Templates the store holds when the popup opens: written by this popup, by
\* another version of it or by a synchronizing peer.
StoredTemplates ==
  {t \o PLACEHOLDER : t \in TextsOver({NL, "\\", "n"}, MaxTemplateLen)}

\* What the user types into the textarea.
TypedFormats ==
  {Empty, <<"n">>, <<"\\", "n">> \o PLACEHOLDER, <<"\\", "\\", "n">> \o PLACEHOLDER}

\* A test that every text passes.
HasPlaceholder_Always(raw) == TRUE

\* raw.indexOf("[SELECTED]") === -1 is false
HasPlaceholder(raw) == IndexOf(raw, PLACEHOLDER) # 0

\* The popup has been opened: the script has asked the store for the
\* template; no content script listens for changes.
InitPopup ==
  /\ InitController
  /\ InitTimers
  /\ InitObserved
  /\ InitDom
  /\ InitOneClick
  /\ inputEl = ElementOf("editable")
  /\ sendButton = TRUE
  /\ inputText = Empty
  /\ focus = "other"
  /\ urlChanged = FALSE
  /\ selectionRanges = FALSE
  /\ storedFormat \in StoredTemplates \cup {Empty}
  /\ loadReply = [state |-> "unreachable", value |-> Empty]
  /\ changes = <<>>
  /\ formatInput = Empty
  /\ status = ""
  /\ popupReplies = <<"load">>
  /\ statusTimers = 0

\* showStatus: the message is shown and a timer is set that clears it.
ShowStatus(message) ==
  /\ statusTimers < MaxPending + 1
  /\ status' = message
  /\ statusTimers' = statusTimers + 1

\* The timer of showStatus fires: the status line is cleared.
StatusTimer ==
  /\ statusTimers > 0
  /\ status' = ""
  /\ statusTimers' = statusTimers - 1
  /\ UNCHANGED <<formatInput, popupReplies>>
  /\ UNCHANGED <<ctl, page, timers, observed, dom, oneClick, settings>>

\* The store calls back: the answer to the read at load is put into the
\* textarea in display form; a finished write is reported.
PopupCallback ==
  /\ popupReplies # <<>>
  /\ popupReplies' = Tail(popupReplies)
  /\ IF Head(popupReplies) = "load"
     THEN /\ formatInput' = toDisplay(OrDefault(storedFormat))
          /\ UNCHANGED <<status, statusTimers>>
     ELSE /\ ShowStatus(Head(popupReplies))
          /\ UNCHANGED formatInput
  /\ UNCHANGED <<ctl, page, timers, observed, dom, oneClick, settings>>

\* The user replaces the text of the textarea.
EditFormat(text) ==
  /\ text # formatInput
  /\ formatInput' = text
  /\ UNCHANGED <<status, popupReplies, statusTimers>>
  /\ UNCHANGED <<ctl, page, timers, observed, dom, oneClick, settings>>

\* Click on Save.
SaveClick ==
  LET raw == fromDisplay(formatInput)
  IN /\ IF ~HasPlaceholder(raw)
        THEN /\ ShowStatus("Format must contain the [SELECTED] placeholder.")
             /\ UNCHANGED <<storedFormat, popupReplies>>
        ELSE /\ Len(popupReplies) < MaxChanges
             /\ storedFormat' = raw
             /\ popupReplies' = Append(popupReplies, "Saved!")
             /\ UNCHANGED <<status, statusTimers>>
     /\ UNCHANGED <<formatInput, loadReply, changes>>
     /\ UNCHANGED <<ctl, page, timers, observed, dom, oneClick>>

\* Click on Reset.
ResetClick ==
  /\ Len(popupReplies) < MaxChanges
  /\ formatInput' = toDisplay(DEFAULT_CITATION_FORMAT)
  /\ storedFormat' = DEFAULT_CITATION_FORMAT
  /\ popupReplies' = Append(popupReplies, "Reset to default.")
  /\ UNCHANGED <<status, statusTimers, loadReply, changes>>
  /\ UNCHANGED <<ctl, page, timers, observed, dom, oneClick>>

NextPopup ==
  \/ PopupCallback
  \/ \E text \in TypedFormats : EditFormat(text)
  \/ SaveClick
  \/ ResetClick
  \/ StatusTimer

SpecPopup == InitPopup /\ [][NextPopup]_vars

\* ------------------------------------------------------------------------
\* Properties
\* ------------------------------------------------------------------------

\* A user send gesture: a click on the send control, or an unshifted Enter
\* keydown while the input surface has focus.
UserSendGesture ==
  \/ UserClickSend
  \/ focus = "input" /\ UserEnter(FALSE)

\* A step in which composeAndSend ran with a quote present (the record of
\* the last compose is dropped when a new quote is committed).
ComposeStep == composed' # composed /\ composed'.quote # Empty

\* C1: when the user fires both a send-control click and an unshifted Enter
\* within one interaction that began with a quote present, the host has
\* received exactly one native send action once the controller's own send
\* has been dispatched (user gestures that reached it plus the own send).
C1_ExactlyOneNativeSend ==
  (gestures = GestureKinds /\ isBypassingSend /\ resendTimers = 0) => hostSends = 1

\* C2: a compose whose injection fails leaves the quote intact (quotedText,
\* quotedDisplayText and the indicator unchanged), leaves the bypass flag
\* false and schedules no send.
C2_FailedInjectionKeepsQuote ==
  [][(ComposeStep /\ ~composed'.ok) =>
       /\ quotedText' = quotedText
       /\ quotedDisplayText' = quotedDisplayText
       /\ chipVisible' = chipVisible
       /\ ~isBypassingSend'
       /\ resendTimers' = resendTimers]_vars

\* C3: the bypass flag is true while the controller's own send is pending
\* and until the deferred clearing that the dispatch schedules; the own
\* send is dispatched under the flag and is never intercepted, also when a
\* new quote was captured in between.
C3_OwnSendBypasses ==
  /\ resendTimers > 0 => isBypassingSend
  /\ clearTimers > 0 => isBypassingSend
  /\ ownSend.kind \in GestureKinds => ownSend.bypass /\ ~ownSend.intercepted

\* C3 witness: the own send was dispatched while a newly captured quote was present.
C3_Witness ==
  /\ ownSend.kind \in GestureKinds
  /\ ownSend.quoted
  /\ ownSend.bypass
  /\ quotedText # Empty
  /\ clearTimers > 0

\* C4: whenever a quote is present, a user send gesture is cancelled and
\* starts composition (also inside the bypass window of an earlier compose).
C4_QuotedGestureIntercepted ==
  [][(UserSendGesture /\ quotedText # Empty) =>
       (ComposeStep /\ composed'.quote = quotedText /\ quotedText' = Empty)]_vars

\* The template with the quote inserted verbatim at the placeholder.
VerbatimCitation(format, quote) ==
  LET i == IndexOf(format, PLACEHOLDER)
  IN SubSeq(format, 1, i - 1) \o quote
       \o SubSeq(format, i + Len(PLACEHOLDER), Len(format))

\* C5: for a template with exactly one placeholder, the citation built by
\* composeAndSend is the template with the quote inserted verbatim at the
\* placeholder's position.
C5_VerbatimSubstitution ==
  (composed.quote # Empty /\ CountOccurrences(citationFormat, PLACEHOLDER) = 1) =>
    composed.citation = VerbatimCitation(citationFormat, composed.quote)

IsPlainText(t) == \A i \in 1..Len(t) : t[i] \notin {"$", NL}

\* C6: with an empty or whitespace-only live input the injected text is the
\* citation with trailing white space removed; for the default template
\* and a plain quote Q it is exactly header, separator, Q, separator, with
\* no newline at the end.
C6_EmptyInputTrimsCitation ==
  (composed.quote # Empty /\ Trim(composed.typed) = Empty) =>
    /\ composed.message = TrimEnd(composed.citation)
    /\ (composed.message = Empty \/ ~IsWhiteSpace(composed.message[Len(composed.message)]))
    /\ (composed.ok /\ resendTimers > 0 /\ hostSends = 0) => inputText = composed.message
    /\ (citationFormat = DEFAULT_CITATION_FORMAT /\ IsPlainText(composed.quote)) =>
         composed.message =
           HeaderLine \o <<NL>> \o SeparatorLine \o <<NL>> \o composed.quote
             \o <<NL>> \o SeparatorLine

\* C6 witness: a whitespace-only input, the default template, a plain quote,
\* the message injected and not yet sent.
C6_Witness ==
  /\ composed.ok
  /\ composed.typed = <<" ">>
  /\ citationFormat = DEFAULT_CITATION_FORMAT
  /\ composed.quote = <<"a", "a">>
  /\ resendTimers > 0
  /\ inputText = composed.message

\* C7: with the default template, a plain quote Q and live input U the
\* message is header, separator, Q, separator and U on the next line, with
\* no blank line before U.
C7_InputFollowsSeparator ==
  (/\ composed.quote # Empty
   /\ composed.input # Empty
   /\ citationFormat = DEFAULT_CITATION_FORMAT
   /\ IsPlainText(composed.quote)) =>
    composed.message =
      HeaderLine \o <<NL>> \o SeparatorLine \o <<NL>> \o composed.quote
        \o <<NL>> \o SeparatorLine \o <<NL>> \o composed.input

\* A selection event: a mouseup, its deferred selection read, a trigger commit.
SelectionEvent ==
  \/ HandleMouseUp(FALSE)
  \/ \E sel \in Selections : MouseUpTimer(sel)
  \/ HandleBubbleClick

\* C8: no selection event is processed while the location has changed and
\* the quote is still present or a floating element is still visible.
C8_NoSelectionEventBeforeClearing ==
  [][SelectionEvent =>
       ~(urlChanged /\ (quotedText # Empty \/ chipVisible \/ bubbleVisible))]_vars

\* A dismissal, a compose, or a detected conversation change.
ClearingStep ==
  \/ ChipCloseClick
  \/ HandleKeyDownEscape
  \/ ComposeStep
  \/ urlChanged /\ CheckUrl
  \/ quotedText # Empty /\ ConversationObserver(TRUE)

\* C9: after a dismissal, a compose or a detected conversation change no
\* session is present (both texts empty); the two texts are empty together;
\* and a session appears only by a trigger commit of a non-empty pending text.
C9_SessionClearedUntilCommit ==
  /\ [](quotedText = Empty <=> quotedDisplayText = Empty)
  /\ [][ClearingStep => (quotedText' = Empty /\ quotedDisplayText' = Empty)]_vars
  /\ [][(quotedText' # quotedText /\ quotedText' # Empty) =>
          /\ HandleBubbleClick
          /\ currentSelectedText # Empty
          /\ quotedText' = currentSelectedText]_vars

\* C9 witness: a committed session was dismissed before its frame ran, and
\* a new pending text waits for the next commit.
C9_Witness ==
  /\ frames > 0
  /\ quotedText = Empty
  /\ quotedDisplayText = Empty
  /\ currentSelectedText # Empty

\* C10: the chip is visible only while a quote session is present.
C10_ChipVisibleOnlyWithQuote == chipVisible => quotedText # Empty

\* C11: when an Escape dismissal or a conversation change fell between the
\* injection and the deferred re-send, the re-send callback dispatches no
\* send: no click, no Enter, nothing reaches the host.
C11_StaleResendDoesNotSend ==
  [][(ResendTimer /\ dismissed) =>
       (ownSend'.kind \notin GestureKinds /\ hostSends' = hostSends)]_vars

\* A conversation-change signal: the URL check finding a new location, or
\* the subtree-removal observer.
ConversationSignal ==
  \/ urlChanged /\ CheckUrl
  \/ \E markers \in BOOLEAN : ConversationObserver(markers)

\* C12: with no quote session a conversation-change signal leaves the whole
\* controller state unchanged (pending selection text and bubble included),
\* and a dismissal leaves a state that the same dismissal would not change.
C12_SignalWithoutSessionIsNoOp ==
  /\ [][(quotedText = Empty /\ ConversationSignal) => UNCHANGED ctl]_vars
  /\ [][ChipCloseClick =>
          (quotedText' = Empty /\ quotedDisplayText' = Empty /\ ~chipVisible')]_vars
  /\ [][HandleKeyDownEscape =>
          (/\ quotedText' = Empty /\ quotedDisplayText' = Empty /\ ~chipVisible'
           /\ ~bubbleVisible' /\ currentSelectedText' = Empty)]_vars

\* A selection whose range exists and whose container lies in no excluded
\* region.
EligibleSelection(sel) == sel.ranges /\ sel.area \notin {"excluded", "both"}

\* C13: a selection with text is captured (pending text recorded, trigger
\* shown) iff it has a range and its container is in no excluded region,
\* also when the container is in a response container too, and also when it
\* is in neither; and no quote session holds text selected in the input
\* region.
C13_CaptureIffNotExcluded ==
  /\ [][\A sel \in DocSelections :
          (MouseUpTimer(sel) /\ Extracted[sel].text # Empty) =>
            ((bubbleVisible' /\ currentSelectedText' = Extracted[sel].text)
               <=> EligibleSelection(sel))]_vars
  /\ [](IndexOf(quotedText, InputRegionText) = 0)

\* The header and separator lines of the Markdown form of Table22.
Table22Header == <<"|", " ", "A", " ", " ", " ", "|", " ", "B", "B", " ", " ", "|">>

Table22Separator == <<"|", " ", "-", "-", "-", " ", "|", " ", "-", "-", "-", " ", "|">>

LineCount(t) == CountOccurrences(t, <<NL>>) + 1

\* C15: capturing a selection that covers the table A,BB / CCC,D, with or
\* without math beside it, records text holding the table as a Markdown
\* block: the header line "| A   | BB  |", then the dashes-only separator
\* line, in a block of four lines.
C15_TableReachesQuoteAsMarkdown ==
  [][\A sel \in TableSelections :
       MouseUpTimer(sel) =>
         /\ IndexOf(currentSelectedText',
                    Table22Header \o <<NL>> \o Table22Separator \o <<NL>>) > 0
         /\ LineCount(TableToMarkdown(Table22)) = 4]_vars

\* C17: a selection that holds one math region of source X and nothing else
\* is captured as exactly "$X$" (inline) or "$$X$$" (display), both when the
\* range lies inside the wrapper and when the clone holds the whole wrapper.
C17_MathRoundTrip ==
  [][\A sel \in MathSelections :
       MouseUpTimer(sel) =>
         currentSelectedText' = Fenced(sel.mathEls[1].latex, sel.mathEls[1].block)]_vars

\* C18: the display text of a quote session is the trimmed visual text of
\* the selection it was captured from, never the extracted text and never
\* source notation, also when that visual text is empty.
C18_DisplayTextIsVisualText ==
  /\ [][\A sel \in DocSelections :
          (MouseUpTimer(sel) /\ currentSelectedText' # Empty) =>
            currentDisplayText' = Trim(sel.string)]_vars
  /\ [][(HandleBubbleClick /\ currentSelectedText # Empty) =>
          quotedDisplayText' = currentDisplayText]_vars
  /\ [](IndexOf(quotedDisplayText, <<"$">>) = 0)

\* The pending text and bubble a deferred selection read leaves when the
\* extraction returned `text` for the selection sel.
CapturedText(sel, text) == IF text # Empty /\ EligibleSelection(sel) THEN text ELSE Empty

\* C19: in both generations extractTextWithMath never throws; when an error
\* is raised while reading the range, cloning, annotating, replacing or
\* serializing, it returns the selection's trimmed string, which the
\* deferred read then treats like any other text; without ranges it returns
\* the empty string and no bubble is shown.
C19_ExtractionNeverThrows ==
  /\ [][\A sel \in DocSelections :
          MouseUpTimer(sel) =>
            /\ ~Extracted[sel].threw
            /\ Raised[sel] =>
                 /\ Extracted[sel].text = Trim(sel.string)
                 /\ currentSelectedText' = CapturedText(sel, Trim(sel.string))
            /\ ~sel.ranges =>
                 (Extracted[sel].text = Empty /\ ~bubbleVisible')]_vars
  /\ [][\A sel \in DocSelections :
          OneClickMouseUpTimer(sel) =>
            /\ ~OneClickExtracted[sel].threw
            /\ OneClickRaised[sel] =>
                 /\ OneClickExtracted[sel].text = Trim(sel.string)
                 /\ oneClickSelectedText' = CapturedText(sel, Trim(sel.string))
            /\ ~sel.ranges =>
                 (OneClickExtracted[sel].text = Empty /\ ~oneClickBubbleVisible')]_vars

\* Both generations hold the visual text of an equation as pending text,
\* which only the catch clause returns for a selection around math.
C19_Witness ==
  /\ currentSelectedText = MathVisual
  /\ bubbleVisible
  /\ oneClickSelectedText = Table22Visual \o <<NL>> \o MathVisual
  /\ oneClickBubbleVisible

\* The one-click generation's bubble commit with a pending text.
OneClickCommit == OneClickHandleBubbleClick /\ oneClickSelectedText # Empty

\* C14: whenever either generation has text to write (the one-click bubble
\* commit, the compose on send) and findInputElement finds no element, an
\* alert box is open after the step.
C14_NoticeWhenNoSurface ==
  [][((OneClickCommit \/ ComposeStep) /\ FindInputElement = "none") => notice']_vars

\* The number of fields the pipes of a line delimit.
FieldCount(line) == CountOccurrences(line, <<"|">>) + 1

\* C16: for a table with no rows tableToMarkdown returns the empty string;
\* for R >= 1 rows of C >= 1 cells it returns R + 1 lines, and every line
\* has the same number of pipe-delimited fields.
C16_TableLinesAndFields ==
  [][ConvertTable =>
       LET rows == Descendants(node, {"tr"})
           lines == Lines(nodeText')
       IN IF rows = <<>> THEN nodeText' = Empty
          ELSE /\ Len(lines) = Len(rows) + 1
               /\ \A i, j \in 1..Len(lines) :
                    FieldCount(lines[i]) = FieldCount(lines[j])]_vars

\* No writable surface: no element matched, or the matched element is of
\* none of the three shapes, or it is a composite widget with neither an
\* inner editable part nor a value property.
NoWritableSurface(el) ==
  \/ ~el.found
  \/ ~el.editable /\ el.tag \notin {"rich-textarea", "textarea"}
  \/ ~el.editable /\ el.tag = "rich-textarea" /\ el.inner = "none" /\ ~el.hasValue

\* C20: the injection of a composed message never raises; it returns false
\* exactly when there is no writable surface, and otherwise the input holds
\* the message and it returns true; a directly editable element is treated
\* as such whatever its tag.
C20_InjectionNeverRaises ==
  [][ComposeStep =>
       /\ ~composed'.raised
       /\ composed'.ok <=> ~NoWritableSurface(inputEl)
       /\ composed'.ok => inputText' = composed'.message]_vars

\* C21: once the initial read and every change notification have been
\* processed, the cached template is the store's value, or the built-in
\* default when the store holds nothing or cannot be reached.
C21_CachedFormatFollowsStore ==
  (changes = <<>> /\ loadReply.state \in {"done", "unreachable"}) =>
    citationFormat = IF loadReply.state = "unreachable"
                     THEN DEFAULT_CITATION_FORMAT
                     ELSE OrDefault(storedFormat)

\* C22: an activation of the bubble (click, Enter or Space) with a non-empty
\* pending text starts a quote session holding exactly that text, clears the
\* document selection, hides the bubble, resets the pending texts and leaves
\* the typed input alone; with an empty pending text it starts no session and
\* hides the bubble.
C22_ActivationStartsSession ==
  [][HandleBubbleClick =>
       IF currentSelectedText # Empty
       THEN /\ quotedText' = currentSelectedText
            /\ ~selectionRanges'
            /\ ~bubbleVisible'
            /\ currentSelectedText' = Empty
            /\ currentDisplayText' = Empty
            /\ inputText' = inputText
       ELSE /\ quotedText' = quotedText
            /\ quotedDisplayText' = quotedDisplayText
            /\ ~bubbleVisible'
            /\ inputText' = inputText]_vars

\* An activation has just started a session over typed input.
C22_Witness ==
  /\ quotedText # Empty
  /\ focusTimers > 0
  /\ currentSelectedText = Empty
  /\ ~bubbleVisible
  /\ ~selectionRanges
  /\ inputText # Empty

\* C23: whenever the bypass flag is set it is cleared later, whether the
\* re-send clicked the send control, dispatched an Enter keydown or found
\* nothing to dispatch to.
C23_BypassIsCleared == isBypassingSend ~> ~isBypassingSend

\* The flag is set and the re-send found neither a send control nor an input
\* surface.
C23_Witness ==
  /\ isBypassingSend
  /\ ownSend.kind = "nothing"
  /\ clearTimers > 0

\* C24 as stated: every re-send dispatches a send, a click or an Enter.
C24_OwnSendExactlyOnce ==
  [][ResendTimer => (ownSend'.kind \in GestureKinds /\ hostSends' = hostSends + 1)]_vars

\* C24: a compose dispatches nothing itself and schedules one re-send if the
\* injection succeeded, none if it failed; the re-send, run later, makes at
\* most one dispatch: a click if a send control is found at that moment,
\* else an Enter keydown if an input surface is found, else nothing.
C24_OwnSendAtMostOnce ==
  [][/\ ComposeStep =>
          /\ resendTimers' = resendTimers + (IF composed'.ok THEN 1 ELSE 0)
          /\ ownSend' = ownSend
          /\ hostSends' = hostSends
     /\ ResendTimer =>
          /\ resendTimers' = resendTimers - 1
          /\ ownSend'.kind = IF sendButton THEN "click"
                             ELSE IF inputKind # "none" THEN "enter"
                             ELSE "nothing"
          /\ hostSends' = hostSends + (IF ownSend'.kind = "nothing" THEN 0 ELSE 1)
     /\ (ownSend' # ownSend /\ ownSend'.kind \in GestureKinds) =>
          (resendTimers > 0 /\ composed.ok)]_vars

\* The re-send found no send control and dispatched Enter on the surface that
\* took the message.
C24_Witness ==
  /\ composed.ok
  /\ ownSend.kind = "enter"
  /\ hostSends = 1
  /\ resendTimers = 0

\* C25: with a quote present and the bypass flag false, an Enter keydown is
\* intercepted (cancelled, the compose run on the quote) iff Shift is not
\* held and the focus is on or inside the input surface; Shift+Enter, Enter
\* with the focus elsewhere and Enter with no input surface start no compose
\* and leave the quote session and the bypass flag as they are.
C25_EnterInterceptedIffInInput ==
  [][\A shift \in BOOLEAN :
       (quotedText # Empty /\ ~isBypassingSend /\ UserEnter(shift)) =>
         IF ~shift /\ inputKind # "none" /\ focus = "input"
         THEN /\ composed'.quote = quotedText
              /\ gestures' = {"enter"}
              /\ quotedText' = Empty
         ELSE /\ quotedText' = quotedText
              /\ quotedDisplayText' = quotedDisplayText
              /\ chipVisible' = chipVisible
              /\ isBypassingSend' = isBypassingSend
              /\ composed' = composed
              /\ resendTimers' = resendTimers]_vars

\* An Enter in the focused input has been intercepted and the message
\* injected.
C25_Witness ==
  /\ gestures = {"enter"}
  /\ composed.ok
  /\ composed.quote # Empty
  /\ inputText = composed.message
  /\ isBypassingSend
  /\ resendTimers > 0

\* C26: with no quote present a send-control click or an Enter keydown
\* changes no controller state, starts no compose, schedules no re-send and
\* injects nothing: the input keeps its text or is emptied by the host's own
\* send.
C26_NoQuoteNoInterception ==
  [][(quotedText = Empty /\ (UserClickSend \/ \E shift \in BOOLEAN : UserEnter(shift))) =>
       /\ UNCHANGED ctl
       /\ ~ComposeStep
       /\ resendTimers' = resendTimers
       /\ inputText' \in {inputText, Empty}]_vars

\* With no quote left, the second of two user gestures has reached the host
\* after the first was intercepted.
C26_Witness ==
  /\ quotedText = Empty
  /\ gestures = GestureKinds
  /\ hostSends = 1
  /\ resendTimers > 0

\* C27: tableToMarkdown pads short rows with empty cells, writes every cell
\* as one line (trimmed, each run of newlines one space), pads every cell of
\* column c with spaces to the width w_c = max(3, longest cell of the
\* column) and writes w_c dashes in the separator, so that all lines have
\* the same length.
C27_TableCellsPadded ==
  [][ConvertTable =>
       \A rows \in {Descendants(node, {"tr"})} :
       \A cells \in {[r \in 1..Len(rows) |-> Descendants(rows[r], {"th", "td"})]} :
       \A lines \in {Lines(nodeText')} :
       LET Larger(a, b) == IF a > b THEN a ELSE b
           colCount ==
             LET m[r \in 0..Len(rows)] ==
                   IF r = 0 THEN 0 ELSE Larger(m[r - 1], Len(cells[r]))
             IN m[Len(rows)]
       IN \A text \in {[r \in 1..Len(rows), c \in 1..colCount |->
                IF c <= Len(cells[r])
                THEN CollapseNewlinesToSpace(Trim(TextContent(cells[r][c])))
                ELSE Empty]} :
          \A width \in {[c \in 1..colCount |->
                LET m[r \in 0..Len(rows)] ==
                      IF r = 0 THEN 3 ELSE Larger(m[r - 1], Len(text[r, c]))
                IN m[Len(rows)]]} :
       LET start[c \in 1..(colCount + 1)] ==
             IF c = 1 THEN 3 ELSE start[c - 1] + width[c - 1] + 3
           LineOf(r) == IF r = 1 THEN lines[1] ELSE lines[r + 1]
           Field(line, c) == SubSeq(line, start[c], start[c] + width[c] - 1)
       IN /\ Len(lines) = Len(rows) + 1
          /\ \A i, j \in 1..Len(lines) : Len(lines[i]) = Len(lines[j])
          /\ \A r \in 1..Len(rows), c \in 1..colCount :
               Field(LineOf(r), c) =
                 [i \in 1..width[c] |->
                    IF i <= Len(text[r, c]) THEN text[r, c][i] ELSE " "]
          /\ \A c \in 1..colCount :
               Field(lines[2], c) = [i \in 1..width[c] |-> "-"]]_vars

\* A table whose second row is one cell short and whose first column holds
\* a cell of four characters once trimmed and collapsed has been converted.
C27_Witness ==
  /\ node.type = "text"
  /\ nodeText = <<"|", " ", "a", "b", " ", "c", " ", "|", " ", "a", " ", " ", " ", "|", NL,
                 "|", " ", "-", "-", "-", "-", " ", "|", " ", "-", "-", "-", " ", "|", NL,
                 "|", " ", "a", " ", " ", " ", " ", "|", " ", " ", " ", " ", " ", "|">>

\* C28: the collapse of blank lines leaves no run of three or more newlines,
\* and applied to its own result it changes nothing.
C28_CollapseIsIdempotent ==
  [][CollapseText =>
       /\ IndexOf(nodeText', <<NL, NL, NL>>) = 0
       /\ CollapseBlankLines(nodeText') = nodeText'
       /\ nodeText = node.text => nodeText' = nodeText]_vars

\* The text with two runs has been collapsed.
C28_Witness ==
  /\ node.type = "text"
  /\ nodeText = <<"a", NL, NL, "b", NL, NL, "c">>

\* C29: a text with k newlines is written into a directly editable surface
\* as k + 1 paragraphs in line order, an empty line as a paragraph holding
\* one <br>, in place of what the surface held; synthetic input and change
\* events are dispatched iff insertHTML reported failure.
C29_ParagraphPerLine ==
  [][\A success \in BOOLEAN :
       InjectIntoContentEditable(success) =>
         LET units == node'.kids
             placeholder == <<Element("br", {}, Empty, <<>>)>>
             LineOf(u) == IF u.kids = placeholder THEN Empty ELSE TextContent(u)
         IN /\ Len(units) = CountOccurrences(nodeText, <<NL>>) + 1
            /\ \A i \in 1..Len(units) :
                 /\ units[i].tag = "p"
                 /\ \/ units[i].kids = placeholder
                    \/ /\ Len(units[i].kids) = 1
                       /\ units[i].kids[1].type = "text"
                       /\ units[i].kids[1].text # Empty
                       /\ IndexOf(units[i].kids[1].text, <<NL>>) = 0
            /\ Join([i \in 1..Len(units) |-> LineOf(units[i])], <<NL>>) = nodeText
            /\ inputEvents' = ~success]_vars

\* A surface that held a paragraph has taken a text of three lines, the
\* middle one empty, through the innerHTML path.
C29_Witness ==
  /\ nodeText = <<"a", NL, NL, "<">>
  /\ inputEvents
  /\ node.type = "element"
  /\ Len(node.kids) = 3
  /\ node.kids[2].kids = <<Element("br", {}, Empty, <<>>)>>
  /\ TextContent(node.kids[3]) = <<"<">>

\* Does an element below n carry one of the classes?
RECURSIVE HasClassBelow(_, _)
HasClassBelow(n, classes) ==
  \E i \in 1..Len(n.kids) :
    n.kids[i].cls \cap classes # {} \/ HasClassBelow(n.kids[i], classes)

\* What C30 asks of one replacement, whose source is recoverable for the
\* regions in Recoverable: each such region gives its notation once, in the
\* fence of its level, no other region gives notation, the visible rendering
\* appears once for each other region that keeps one, and no element of the
\* hidden classes is left.
NotationOnce(Recoverable(_), hidden, keepsVisual) ==
  LET regions == {i \in 1..Len(node.kids) : node.kids[i].type = "element"}
      IsDisplay(k) == k.cls \cap {"math-block", "katex-display"} # {}
      display == {i \in regions : Recoverable(node.kids[i]) /\ IsDisplay(node.kids[i])}
      inline == {i \in regions : Recoverable(node.kids[i]) /\ ~IsDisplay(node.kids[i])}
      others == regions \ (display \cup inline)
  IN /\ CountOccurrences(nodeText', MathX) = Cardinality(display) + Cardinality(inline)
     /\ CountOccurrences(nodeText', Fenced(MathX, TRUE)) = Cardinality(display)
     /\ CountOccurrences(nodeText', <<"$">>) =
          4 * Cardinality(display) + 2 * Cardinality(inline)
     /\ CountOccurrences(nodeText', MathVisual) =
          IF keepsVisual THEN Cardinality(others) ELSE 0
     /\ ~HasClassBelow(node', hidden)

\* C30: replaceMathElements resolves a display-level wrapper before the
\* inline nodes in it: every equation whose source is recoverable (from
\* data-math or the TeX annotation; in the one-click generation from the
\* annotation) gives its notation exactly once, fenced for its level, and no
\* hidden or duplicate rendering is left in the fragment to add text.
C30_NotationExactlyOnce ==
  [][/\ ReplaceMath =>
          LET Recoverable(k) == k.math # Empty \/ Descendants(k, {"annotation"}) # <<>>
          IN NotationOnce(Recoverable, HIDDEN_CLASSES, FALSE)
     /\ OneClickReplaceMath =>
          LET Recoverable(k) == Descendants(k, {"annotation"}) # <<>>
          IN NotationOnce(Recoverable, {"katex-mathml", "MathJax_Preview"}, TRUE)]_vars

\* A display equation and an inline one have been replaced.
C30_Witness ==
  /\ node.type = "fragment"
  /\ nodeText = Fenced(MathX, TRUE) \o <<"a">> \o Fenced(MathX, FALSE)
  /\ Len(node.kids) = 3
  /\ \A i \in 1..3 : node.kids[i].type = "text"

\* C31: the re-association of orphaned rendered nodes gives a rendered
\* equation no other equation's source: after it every wrapper in the clone
\* carries the source of the equation it stands around, and the extracted
\* text holds no equation's source more than once.
C31_OrphansGetOwnSource ==
  [][ExtractMixed =>
       LET annotated == AnnotateMathFromOriginalDOM(node, MathElsOf(node))
       IN /\ \A i \in 1..Len(node.kids) :
               annotated.kids[i].math \in {Empty, Notation((i + 1) \div 2)}
          /\ \A r \in 1..((Len(node.kids) + 1) \div 2) :
               CountOccurrences(nodeText', Notation(r)) <= 1]_vars

\* C32: an equation whose source cannot be recovered (no data-math, no TeX
\* annotation) appears in the extracted text as what it shows, so the text
\* extracted from a selection that shows something is not empty.
C32_UnrecoverableMathKeepsVisual ==
  [][ExtractMixed =>
       LET unrecoverable ==
             {i \in 1..Len(node.kids) :
                /\ node.kids[i].type = "element"
                /\ node.kids[i].math = Empty
                /\ Descendants(node.kids[i], {"annotation"}) = <<>>}
       IN /\ VisualString(node) # Empty => nodeText' # Empty
          /\ CountOccurrences(nodeText', MathVisual) = Cardinality(unrecoverable)]_vars

\* C33: a visible bubble goes with a non-empty pending text; the bubble is
\* shown, and the pending text set, only by the read of a selection that
\* passed isValidSelectionArea and whose extraction is that text; every step
\* that empties the pending text leaves the bubble hidden.
C33_VisibleBubbleHasValidText ==
  [][/\ bubbleVisible' => currentSelectedText' # Empty
     /\ (\/ bubbleVisible' /\ ~bubbleVisible
         \/ currentSelectedText' \notin {Empty, currentSelectedText}) =>
          /\ mouseUpTimers' = mouseUpTimers - 1
          /\ \E sel \in PendingSelections :
               /\ IsValidSelectionArea(sel)
               /\ Extracted[sel].text = currentSelectedText'
     /\ (currentSelectedText # Empty /\ currentSelectedText' = Empty) =>
          ~bubbleVisible']_vars

\* The bubble stands over the text of a valid selection.
C33_Witness ==
  /\ bubbleVisible
  /\ currentSelectedText = Fenced(MathX, TRUE)
  /\ quotedText = <<"a">>

\* C34: at most one compose is in flight: while a deferred re-send or a
\* deferred clearing is pending the bypass flag is set and no second one is
\* pending, composeAndSend starts only with the flag clear, and the step
\* that clears the flag leaves no re-send and no clearing pending.
C34_OneComposeInFlight ==
  [][/\ (resendTimers' > 0 \/ clearTimers' > 0) => isBypassingSend'
     /\ resendTimers' + clearTimers' <= 1
     /\ ComposeStep => ~isBypassingSend
     /\ (isBypassingSend /\ ~isBypassingSend') =>
          resendTimers' = 0 /\ clearTimers' = 0]_vars

\* A new quote has been committed inside the bypass window of the previous
\* compose, whose clearing is still pending.
C34_Witness ==
  /\ isBypassingSend
  /\ clearTimers = 1
  /\ quotedText # Empty
  /\ hostSends >= 1

\* C35: mousedown, mouseup, the deferred selection read (whatever it finds),
\* scroll and resize leave quotedText, quotedDisplayText and isBypassingSend
\* as they are; the two texts of a session change only in a trigger commit,
\* a click on the close button, an Escape, a compose or a conversation
\* change.
C35_SelectionEventsKeepSession ==
  [][/\ (\/ \E target \in {"bubble", "input", "page"} : HandleMouseDown(target)
         \/ \E onBubble \in BOOLEAN : HandleMouseUp(onBubble)
         \/ \E sel \in Selections : MouseUpTimer(sel)
         \/ HandleScroll
         \/ HandleResize) =>
          UNCHANGED <<quotedText, quotedDisplayText, isBypassingSend>>
     /\ <<quotedText, quotedDisplayText>>' # <<quotedText, quotedDisplayText>> =>
          \/ HandleBubbleClick
          \/ ClearingStep]_vars

\* A selection has been read and the bubble shown while a session was
\* present inside the bypass window.
C35_Witness ==
  /\ quotedText = <<"a">>
  /\ isBypassingSend
  /\ bubbleVisible
  /\ currentSelectedText = <<"a">>
  /\ mouseUpTimers = 0

\* C36: the raw text and the visual text of the pending selection, and
\* those of a session, come from one and the same selection read: the raw
\* text is its extraction and the visual text its trimmed string (for a
\* session the raw text again when that string is empty).
C36_TextsFromSameSelection ==
  LET pairs == {<<Extracted[sel].text, Trim(sel.string)>> :
                  sel \in {s \in PendingSelections : IsValidSelectionArea(s)}}
  IN /\ currentSelectedText # Empty =>
          <<currentSelectedText, currentDisplayText>> \in pairs
     /\ quotedText # Empty =>
          \E p \in pairs :
            /\ quotedText = p[1]
            /\ quotedDisplayText = IF p[2] # Empty THEN p[2] ELSE p[1]

\* A session over an equation (LaTeX and what it shows) stands while the
\* pending texts are those of a later plain selection.
C36_Witness ==
  /\ quotedText = Fenced(MathX, TRUE)
  /\ quotedDisplayText = MathVisual
  /\ currentSelectedText = <<"a">>
  /\ currentDisplayText = <<"a">>

\* C37: Save writes the store only when the text of the editor, read back
\* from display form, contains the placeholder, and then writes exactly that
\* text; otherwise it shows the error status and leaves the store as it was.
\* Reset stores the default template. Hence every template the editor writes
\* contains the placeholder.
C37_SaveNeedsPlaceholder ==
  [][/\ SaveClick =>
          IF IndexOf(fromDisplay(formatInput), PLACEHOLDER) # 0
          THEN storedFormat' = fromDisplay(formatInput)
          ELSE /\ storedFormat' = storedFormat
               /\ status' = "Format must contain the [SELECTED] placeholder."
     /\ ResetClick => storedFormat' = DEFAULT_CITATION_FORMAT
     /\ storedFormat' # storedFormat =>
          IndexOf(storedFormat', PLACEHOLDER) # 0]_vars

\* A Save has been refused: the editor holds a text without the placeholder,
\* the error is shown and the store still holds a template.
C37_Witness ==
  /\ status = "Format must contain the [SELECTED] placeholder."
  /\ formatInput = <<"n">>
  /\ storedFormat \in StoredTemplates

====
